---- MODULE Spec2Model ----
(***************************************************************************)
(* GestureFlow backend: the per-connection session loop of main.py, the    *)
(* KNN gesture classifier of model.py and the debounced action dispatcher  *)
(* of controller.py.                                                       *)
(*                                                                         *)
(* Numbers.  Feature vectors are points on a line and every distance or    *)
(* confidence is an integer count of 1/Scale (Scale = 100000, so that the  *)
(* 4-decimal rounding of model.py is a real rounding to a multiple of 10). *)
(* Wrist coordinates are integer tenths of the normalised frame.  Time is  *)
(* an integer count of 1/TicksPerSecond seconds.  Python's None is the     *)
(* empty sequence <<>>; a present optional value v is <<v>> (a wrist       *)
(* position is the pair <<x, y>> itself).                                  *)
(***************************************************************************)
EXTENDS Integers, Sequences, FiniteSets, TLC

VARIABLES
    gesture_model,   \* main.py:49   the process-wide GestureClassifier
    desktop_ctrl,    \* main.py:51   the process-wide DesktopController
    now,             \* time.time()
    conn,            \* per-connection locals of websocket_endpoint
    active_websockets, \* main.py:63  connections registered for broadcasts
    pred,            \* observation: the last GestureClassifier.predict call
    disp,            \* observation: the last DesktopController.execute call
    last_success,    \* history: per gesture, time of the executor's last success
    fitted,          \* history: some train() has fitted a model
    snapshot,        \* the file at MODEL_PATH (gesture_model.pkl)
    load,            \* observation: the last GestureClassifier.load_model call
    mouse_ctrl,      \* main.py:52   the process-wide MouseController
    mouse,           \* observation: the last MouseController.process_hand call
    normalized,      \* observation: the last normalize_landmarks call
    process_every_n, \* main.py:442  the frame-skip factor the process runs with
    workers, \* main.py:672   threads of asyncio.to_thread inside DesktopController.execute
    config_store, \* main.py:50   the process-wide GestureConfigStore (_configs and its file)
    requests, \* main.py:110  threads inside a gesture-mapping handler
    jarvis_service, \* main.py:60   the process-wide JarvisService (None until it is started)
    poller  \* observation: a client of GET /api/jarvis/events

vars == <<gesture_model, desktop_ctrl, now, conn, active_websockets, pred, disp,
          last_success, fitted, snapshot, load, mouse_ctrl, mouse, normalized,
          process_every_n, workers, config_store, requests, jarvis_service, poller>>

(***************************************************************************)
(* Representation                                                          *)
(***************************************************************************)
Scale == 100000

\* main.py:442: the frame-skip factor as shipped.
PROCESS_EVERY_N == 1

\* No call of normalize_landmarks has been made yet.
NoNormalize == [called |-> FALSE, landmarks |-> <<>>, result |-> <<>>]
TicksPerSecond == 2

\* No thread is inside DesktopController.execute.
NoWorkers == <<>>

\* The configuration store and its handlers are left out of a run.
NoConfigStore == <<>>
NoRequests == <<>>

\* A client of the events endpoint that has not polled yet: the id it
\* passes as since_id, the ids it has received so far in the order
\* received, and its last call (the arguments, the events retained at the
\* call, the answer).
NoPoller ==
    [last_event_id |-> 0, got |-> <<>>,
     call |-> [called |-> FALSE, since_id |-> 0, limit |-> 0,
               retained |-> <<>>, events |-> <<>>, last_event_id |-> 0]]

None == <<>>
Some(v) == <<v>>

Min(a, b) == IF a <= b THEN a ELSE b
Max(a, b) == IF a >= b THEN a ELSE b
Abs(a) == IF a >= 0 THEN a ELSE -a

\* str ordering of the labels the model uses (ASCII: upper case first).
LabelOrder == <<"A", "B", "C", "None", "Unknown", "gesture">>
LabelRank(l) == CHOOSE i \in 1..Len(LabelOrder) : LabelOrder[i] = l

(***************************************************************************)
(* model.py -- GestureClassifier                                           *)
(***************************************************************************)
UNKNOWN_THRESHOLD == 60000
n_neighbors == 5

\* GestureClassifier.__init__
NewClassifier ==
    [n_neighbors |-> n_neighbors,
     X_data |-> <<>>, y_data |-> <<>>, model |-> None, is_trained |-> FALSE]

\* Mutant: a new sample is put at the head of the buffer.
add_sample_at_head(gm, label, landmarks) ==
    [gm EXCEPT !.X_data = <<landmarks>> \o @, !.y_data = <<label>> \o @]

\* Mutant: a sample added to a trained classifier is fitted at once.
add_sample_refit(gm, label, landmarks) ==
    [gm EXCEPT !.X_data = Append(@, landmarks), !.y_data = Append(@, label),
               !.model = IF gm.is_trained
                         THEN Some([n_neighbors |->
                                        Min(gm.n_neighbors, Len(gm.X_data) + 1),
                                    X |-> Append(gm.X_data, landmarks),
                                    y |-> Append(gm.y_data, label)])
                         ELSE @]

\* GestureClassifier.add_sample
add_sample(gm, label, landmarks) ==
    [gm EXCEPT !.X_data = Append(@, landmarks), !.y_data = Append(@, label)]

\* Mutant: the model is built with the configured neighbour count.
train_fixed_k(gm) ==
    IF Len(gm.X_data) = 0
    THEN gm
    ELSE [gm EXCEPT !.model = Some([n_neighbors |-> gm.n_neighbors,
                                    X |-> gm.X_data,
                                    y |-> gm.y_data]),
                    !.is_trained = TRUE]

\* Mutant: train fits only the samples that carry the label of the newest
\* sample, the ones of the run that has just ended.
train_newest_label(gm) ==
    IF Len(gm.X_data) = 0
    THEN gm
    ELSE LET own == SelectSeq([i \in 1..Len(gm.X_data) |-> i],
                              LAMBDA i : gm.y_data[i] = gm.y_data[Len(gm.y_data)])
             n == Min(gm.n_neighbors, Len(own))
         IN  [gm EXCEPT !.model = Some([n_neighbors |-> n,
                                        X |-> [i \in 1..Len(own) |-> gm.X_data[own[i]]],
                                        y |-> [i \in 1..Len(own) |-> gm.y_data[own[i]]]]),
                        !.is_trained = TRUE]

\* GestureClassifier.train.  KNeighborsClassifier(n_neighbors=n).fit(X, y):
\* the fitted estimator keeps its own copy of the samples.
train(gm) ==
    IF Len(gm.X_data) = 0
    THEN gm
    ELSE LET n == Min(gm.n_neighbors, Len(gm.X_data))
         IN  [gm EXCEPT !.model = Some([n_neighbors |-> n,
                                        X |-> gm.X_data,
                                        y |-> gm.y_data]),
                        !.is_trained = TRUE]

\* Euclidean distance of two feature vectors (points on a line).
Dist(a, b) == Abs(a - b)

\* Python round(x, 4): to the nearest multiple of 10/Scale, ties to even.
round4(x) ==
    LET q == x \div 10
        r == x % 10
    IN  IF r < 5 THEN 10 * q
        ELSE IF r > 5 THEN 10 * (q + 1)
        ELSE IF q % 2 = 0 THEN 10 * q ELSE 10 * (q + 1)

\* kneighbors: the distances from `sample` to the fitted samples.
Distances(m, sample) == [i \in 1..Len(m.X) |-> Dist(sample, m.X[i])]

MinDist(m, sample) ==
    LET d == Distances(m, sample)
    IN  CHOOSE x \in {d[i] : i \in 1..Len(m.X)} : \A i \in 1..Len(m.X) : x <= d[i]

\* The index sets kneighbors may return as the k nearest: which of several
\* equidistant samples fall inside is left to the search structure.
NeighborSets(m, sample) ==
    LET d == Distances(m, sample)
    IN  {S \in SUBSET (1..Len(m.X)) :
            /\ Cardinality(S) = m.n_neighbors
            /\ \A i \in S : \A j \in (1..Len(m.X)) \ S : d[i] <= d[j]}

\* KNeighborsClassifier.predict with uniform weights: the most frequent label
\* among the neighbours, the first in class order on a tie.
Vote(m, S) ==
    LET count(l) == Cardinality({i \in S : m.y[i] = l})
        labels == {m.y[i] : i \in S}
    IN  CHOOSE l \in labels :
            \A o \in labels :
                \/ count(l) > count(o)
                \/ count(l) = count(o) /\ LabelRank(l) <= LabelRank(o)

\* Mutant: an untrained classifier with samples answers from the raw buffer.
predict_buffer(gm, landmarks) ==
    IF Len(gm.X_data) = 0
    THEN {[label |-> "Unknown", confidence |-> 0]}
    ELSE LET m == [n_neighbors |-> Min(gm.n_neighbors, Len(gm.X_data)),
                   X |-> gm.X_data, y |-> gm.y_data]
             min_dist == MinDist(m, landmarks)
         IN  IF min_dist > UNKNOWN_THRESHOLD
             THEN {[label |-> "Unknown", confidence |-> round4(min_dist)]}
             ELSE {[label |-> Vote(m, S),
                    confidence |-> round4(Max(0, Min(Scale, Scale - min_dist)))]
                   : S \in NeighborSets(m, landmarks)}

\* Mutant: the confidence of a recognised gesture is the raw distance.
predict_rawconf(gm, landmarks) ==
    IF ~gm.is_trained \/ gm.model = None
    THEN {[label |-> "Unknown", confidence |-> 0]}
    ELSE LET m == gm.model[1]
             min_dist == MinDist(m, landmarks)
         IN  IF min_dist > UNKNOWN_THRESHOLD
             THEN {[label |-> "Unknown", confidence |-> round4(min_dist)]}
             ELSE {[label |-> Vote(m, S), confidence |-> round4(min_dist)]
                   : S \in NeighborSets(m, landmarks)}

\* Mutant: the rejection test is min_dist >= UNKNOWN_THRESHOLD.
predict_geq(gm, landmarks) ==
    IF ~gm.is_trained \/ gm.model = None
    THEN {[label |-> "Unknown", confidence |-> 0]}
    ELSE LET m == gm.model[1]
             min_dist == MinDist(m, landmarks)
         IN  IF min_dist >= UNKNOWN_THRESHOLD
             THEN {[label |-> "Unknown", confidence |-> round4(min_dist)]}
             ELSE {[label |-> Vote(m, S),
                    confidence |-> round4(Max(0, Min(Scale, Scale - min_dist)))]
                   : S \in NeighborSets(m, landmarks)}

\* GestureClassifier.predict: the set of results the call may return.
predict(gm, landmarks) ==
    IF ~gm.is_trained \/ gm.model = None
    THEN {[label |-> "Unknown", confidence |-> 0]}
    ELSE LET m == gm.model[1]
             min_dist == MinDist(m, landmarks)
         IN  IF min_dist > UNKNOWN_THRESHOLD
             THEN {[label |-> "Unknown", confidence |-> round4(min_dist)]}
             ELSE {[label |-> Vote(m, S),
                    confidence |-> round4(Max(0, Min(Scale, Scale - min_dist)))]
                   : S \in NeighborSets(m, landmarks)}

\* The keys of the payload save_model pickles, in the order load_model
\* reads them.
PayloadKeys == <<"X_data", "y_data", "model", "is_trained">>

\* The file at MODEL_PATH: None if there is none, else whether pickle can
\* read it, the keys of the pickled dict and their values.
Snapshot(readable, keys, gm) ==
    Some([readable |-> readable, keys |-> keys,
          X_data |-> gm.X_data, y_data |-> gm.y_data,
          model |-> gm.model, is_trained |-> gm.is_trained])

\* GestureClassifier.save_model: the file written.
save_model(gm) ==
    Snapshot(TRUE, {PayloadKeys[i] : i \in 1..Len(PayloadKeys)}, gm)

\* The classifier after the first n assignments of load_model.
Assigned(gm, payload, n) ==
    [gm EXCEPT !.X_data = IF n >= 1 THEN payload.X_data ELSE @,
               !.y_data = IF n >= 2 THEN payload.y_data ELSE @,
               !.model = IF n >= 3 THEN payload.model ELSE @,
               !.is_trained = IF n >= 4 THEN payload.is_trained ELSE @]

\* GestureClassifier.load_model: the classifier afterwards, the value
\* returned and whether the call raised instead of returning (pickle.load
\* on an unreadable file, KeyError on the first key that is absent).
load_model(gm, file) ==
    IF file = None THEN [gm |-> gm, ok |-> FALSE, raised |-> FALSE]
    ELSE IF ~file[1].readable THEN [gm |-> gm, ok |-> FALSE, raised |-> TRUE]
    ELSE LET absent == {i \in 1..Len(PayloadKeys) : PayloadKeys[i] \notin file[1].keys}
         IN  IF absent = {}
             THEN [gm |-> Assigned(gm, file[1], 4), ok |-> TRUE, raised |-> FALSE]
             ELSE LET first == CHOOSE i \in absent : \A j \in absent : i <= j
                  IN  [gm |-> Assigned(gm, file[1], first - 1),
                       ok |-> FALSE, raised |-> TRUE]

\* The record of one load_model call kept for the properties: the value
\* returned, whether the call raised, whether the classifier was as
\* constructed before the call and whether it is empty and untrained after.
Blank(gm) ==
    gm.X_data = <<>> /\ gm.y_data = <<>> /\ gm.model = None /\ ~gm.is_trained

NoLoad == [called |-> FALSE, ok |-> FALSE, raised |-> FALSE,
           fresh |-> FALSE, blank_after |-> FALSE]

(***************************************************************************)
(* controller.py -- DesktopController                                      *)
(***************************************************************************)
\* DesktopController.__init__(cooldown=1.0)
cooldown == 1 * TicksPerSecond

\* Python's None passed as a gesture label.
NoneLabel == "<None>"

\* dict.get(key, default) and dict[key] = value on a function.
Get(d, k, default) == IF k \in DOMAIN d THEN d[k] ELSE default
Put(d, k, v) == [x \in (DOMAIN d) \cup {k} |-> IF x = k THEN v ELSE d[x]]

\* DesktopController.__init__
NewController(gesture_map) ==
    [gesture_map |-> gesture_map, last_action_time |-> <<>>]

NotDispatched(dc) == [dc |-> dc, success |-> FALSE, invoked |-> FALSE]

\* Mutant: the cooldown test is (now - last) <= cooldown.
execute_leq(dc, gesture, t, run_ok) ==
    IF gesture \in {"Unknown", "None", NoneLabel} THEN NotDispatched(dc)
    ELSE IF gesture \notin DOMAIN dc.gesture_map THEN NotDispatched(dc)
    ELSE IF (t - Get(dc.last_action_time, gesture, 0)) <= cooldown
         THEN NotDispatched(dc)
    ELSE [dc |-> IF run_ok
                 THEN [dc EXCEPT !.last_action_time = Put(@, gesture, t)]
                 ELSE dc,
          success |-> run_ok, invoked |-> TRUE]

\* Mutant: the timestamp is recorded whether or not the action succeeded.
execute_stamp_always(dc, gesture, t, run_ok) ==
    IF gesture \in {"Unknown", "None", NoneLabel} THEN NotDispatched(dc)
    ELSE IF gesture \notin DOMAIN dc.gesture_map THEN NotDispatched(dc)
    ELSE IF (t - Get(dc.last_action_time, gesture, 0)) < cooldown
         THEN NotDispatched(dc)
    ELSE [dc |-> [dc EXCEPT !.last_action_time = Put(@, gesture, t)],
          success |-> run_ok, invoked |-> TRUE]

\* Mutant: the sentinel labels are not filtered before the map lookup.
execute_nofilter(dc, gesture, t, run_ok) ==
    IF gesture \notin DOMAIN dc.gesture_map THEN NotDispatched(dc)
    ELSE IF (t - Get(dc.last_action_time, gesture, 0)) < cooldown
         THEN NotDispatched(dc)
    ELSE [dc |-> IF run_ok
                 THEN [dc EXCEPT !.last_action_time = Put(@, gesture, t)]
                 ELSE dc,
          success |-> run_ok, invoked |-> TRUE]

\* Mutant: a successful firing stamps every gesture of the map.
execute_stamps_all(dc, gesture, t, run_ok) ==
    IF gesture \in {"Unknown", "None", NoneLabel} THEN NotDispatched(dc)
    ELSE IF gesture \notin DOMAIN dc.gesture_map THEN NotDispatched(dc)
    ELSE IF (t - Get(dc.last_action_time, gesture, 0)) < cooldown
         THEN NotDispatched(dc)
    ELSE [dc |-> IF run_ok
                 THEN [dc EXCEPT !.last_action_time =
                           [g \in DOMAIN dc.gesture_map |-> t]]
                 ELSE dc,
          success |-> run_ok, invoked |-> TRUE]

\* DesktopController.execute at time t = time.time(); run_ok is what
\* _run_action(action) returns if it is called.
execute(dc, gesture, t, run_ok) ==
    IF gesture \in {"Unknown", "None", NoneLabel} THEN NotDispatched(dc)
    ELSE IF gesture \notin DOMAIN dc.gesture_map THEN NotDispatched(dc)
    ELSE IF (t - Get(dc.last_action_time, gesture, 0)) < cooldown
         THEN NotDispatched(dc)
    ELSE [dc |-> IF run_ok
                 THEN [dc EXCEPT !.last_action_time = Put(@, gesture, t)]
                 ELSE dc,
          success |-> run_ok, invoked |-> TRUE]

\* POST /api/gestures: config_store.upsert, then the controller's map is
\* rebuilt from the store (a preset entry maps the name to its action).
upsert_gesture(dc, name, action) ==
    [dc EXCEPT !.gesture_map = Put(dc.gesture_map, name, action)]

\* DELETE /api/gestures/{name}: the map is rebuilt if the entry existed.
delete_gesture(dc, name) ==
    IF name \in DOMAIN dc.gesture_map
    THEN [dc EXCEPT !.gesture_map =
                        [g \in (DOMAIN dc.gesture_map) \ {name} |-> dc.gesture_map[g]]]
    ELSE dc

\* The record of one execute call kept for the properties: the gesture, the
\* time, whether it had an entry in the map, whether _run_action was called
\* and with what result, the dispatcher's answer, and the time of the
\* executor's last success for the gesture before the call (None if never).
DispatchRecord(dc, gesture, t, run_ok, r, ls) ==
    [called |-> TRUE, gesture |-> gesture, t |-> t,
     mapped |-> gesture \in DOMAIN dc.gesture_map,
     invoked |-> r.invoked, run_ok |-> r.invoked /\ run_ok,
     success |-> r.success,
     prev_success |-> IF gesture \in DOMAIN ls THEN Some(ls[gesture]) ELSE None]

NoDispatch ==
    [called |-> FALSE, gesture |-> "None", t |-> 0, mapped |-> FALSE,
     invoked |-> FALSE, run_ok |-> FALSE, success |-> FALSE,
     prev_success |-> None]

NoPredict == [called |-> FALSE, query |-> 0,
              result |-> [label |-> "None", confidence |-> 0]]

(***************************************************************************)
(* mouse_engine.py -- MouseController                                      *)
(*                                                                         *)
(* Fingertip coordinates are integer hundredths of the frame, the cursor   *)
(* is in whole pixels, and the engine's clock counts 1/MouseTicksPerSecond *)
(* seconds.                                                                *)
(***************************************************************************)
MouseTicksPerSecond == 10
frame_reduction == 100
smoothening == 3
click_threshold == 5
click_cooldown == 3

\* pyautogui.size(): the screen of the machine.
screen_width == 400
screen_height == 400

\* MouseController.__init__
NewMouse ==
    [prev |-> <<screen_width \div 2, screen_height \div 2>>,
     last_left_click |-> 0, last_right_click |-> 0]

\* np.interp(x, (fr / size, 1 - fr / size), (0, size)) for x in hundredths:
\* linear between the margins, clamped outside them.
Interp(x, size) ==
    LET lo == 100 * frame_reduction
        hi == 100 * size - 100 * frame_reduction
    IN  IF x * size <= lo THEN 0
        ELSE IF x * size >= hi THEN size
        ELSE ((x * size - lo) * size) \div (hi - lo)

\* Division that rounds toward zero.
Quot(a, b) == IF a >= 0 THEN a \div b ELSE -((-a) \div b)

\* prev + (target - prev) / smoothening, kept to whole pixels.
Smooth(prev, target) == prev + Quot(target - prev, smoothening)

\* MouseController._distance(a, b) < click_threshold, on squares.
Pinched(a, b) ==
    (a[1] - b[1]) * (a[1] - b[1]) + (a[2] - b[2]) * (a[2] - b[2])
        < click_threshold * click_threshold

\* (now - self._last_left_click) > self.click_cooldown
Elapsed(t, last) == (t - last) > click_cooldown

\* Mutant: the right-click check is skipped when a left click was emitted.
process_hand_exclusive(mc, hand, t, move_ok, left_ok, right_ok) ==
    LET curr == <<Smooth(mc.prev[1], Interp(hand.index[1], screen_width)),
                  Smooth(mc.prev[2], Interp(hand.index[2], screen_height))>>
        mc1 == [mc EXCEPT !.prev = curr]
        left == Pinched(hand.index, hand.thumb) /\ Elapsed(t, mc.last_left_click)
        right == ~left /\ Pinched(hand.middle, hand.thumb)
                 /\ Elapsed(t, mc.last_right_click)
        mc2 == IF left /\ left_ok THEN [mc1 EXCEPT !.last_left_click = t] ELSE mc1
        mc3 == IF right /\ right_ok THEN [mc2 EXCEPT !.last_right_click = t] ELSE mc2
    IN  IF left /\ ~left_ok
        THEN [mc |-> mc1, moved |-> move_ok, left |-> FALSE, right |-> FALSE,
              raised |-> TRUE]
        ELSE IF right /\ ~right_ok
        THEN [mc |-> mc2, moved |-> move_ok, left |-> left, right |-> FALSE,
              raised |-> TRUE]
        ELSE [mc |-> mc3, moved |-> move_ok, left |-> left, right |-> right,
              raised |-> FALSE]

\* Mutant: the stored position is assigned inside the try block, after
\* moveTo, so a failed move leaves it as it was.
process_hand_move_first(mc, hand, t, move_ok, left_ok, right_ok) ==
    LET curr == <<Smooth(mc.prev[1], Interp(hand.index[1], screen_width)),
                  Smooth(mc.prev[2], Interp(hand.index[2], screen_height))>>
        mc1 == IF move_ok THEN [mc EXCEPT !.prev = curr] ELSE mc
        left == Pinched(hand.index, hand.thumb) /\ Elapsed(t, mc.last_left_click)
        right == Pinched(hand.middle, hand.thumb)
                 /\ Elapsed(t, mc.last_right_click)
        mc2 == IF left /\ left_ok THEN [mc1 EXCEPT !.last_left_click = t] ELSE mc1
        mc3 == IF right /\ right_ok THEN [mc2 EXCEPT !.last_right_click = t] ELSE mc2
    IN  IF left /\ ~left_ok
        THEN [mc |-> mc1, moved |-> move_ok, left |-> FALSE, right |-> FALSE,
              raised |-> TRUE]
        ELSE IF right /\ ~right_ok
        THEN [mc |-> mc2, moved |-> move_ok, left |-> left, right |-> FALSE,
              raised |-> TRUE]
        ELSE [mc |-> mc3, moved |-> move_ok, left |-> left, right |-> right,
              raised |-> FALSE]

\* MouseController.process_hand at time t = time.time().  move_ok, left_ok
\* and right_ok tell whether pyautogui.moveTo, click and rightClick return
\* (a failing moveTo is caught, a failing click is not).  The result holds
\* the controller afterwards, the events emitted and whether the call
\* raised.
process_hand(mc, hand, t, move_ok, left_ok, right_ok) ==
    LET curr == <<Smooth(mc.prev[1], Interp(hand.index[1], screen_width)),
                  Smooth(mc.prev[2], Interp(hand.index[2], screen_height))>>
        mc1 == [mc EXCEPT !.prev = curr]
        left == Pinched(hand.index, hand.thumb) /\ Elapsed(t, mc.last_left_click)
        right == Pinched(hand.middle, hand.thumb)
                 /\ Elapsed(t, mc.last_right_click)
        mc2 == IF left /\ left_ok THEN [mc1 EXCEPT !.last_left_click = t] ELSE mc1
        mc3 == IF right /\ right_ok THEN [mc2 EXCEPT !.last_right_click = t] ELSE mc2
    IN  IF left /\ ~left_ok
        THEN [mc |-> mc1, moved |-> move_ok, left |-> FALSE, right |-> FALSE,
              raised |-> TRUE]
        ELSE IF right /\ ~right_ok
        THEN [mc |-> mc2, moved |-> move_ok, left |-> left, right |-> FALSE,
              raised |-> TRUE]
        ELSE [mc |-> mc3, moved |-> move_ok, left |-> left, right |-> right,
              raised |-> FALSE]

\* The record of one process_hand call kept for the properties: the time,
\* the hand, the controller before the call, the click events emitted and
\* whether the call raised.
MouseRecord(mc, hand, t, r) ==
    [called |-> TRUE, t |-> t, hand |-> hand, before |-> mc,
     moved |-> r.moved, left |-> r.left, right |-> r.right, raised |-> r.raised]

\* A hand for the engine: index tip, thumb tip and middle tip.
MouseHand(index, thumb, middle) ==
    [index |-> index, thumb |-> thumb, middle |-> middle]

(***************************************************************************)
(* Bounds and input sets                                                   *)
(***************************************************************************)
MaxSamples == 3
StartTime == 2
MaxTime == 6
MaxStep == 3

\* Feature vectors offered to the classifier on its own: pairwise distances
\* 0, 0.00006, 0.6 and 0.60006.
Vecs == {0, 60000, 60006}
TrainLabels == {"A", "B", "Unknown"}

\* The engine on its own: the clock at the first call and its last value,
\* and the longest pause between two calls.
MouseStartTime == 4
MouseMaxTime == 8
MouseMaxStep == 4

\* Hands shown to the engine on its own: index tip at the centre or just
\* right of it; thumb and middle tip within 0.03 or 0.05 (the threshold)
\* of the index tip, or far from it.
MouseHands ==
    {MouseHand(<<x, 50>>, <<x + dl, 50>>, <<x + dl + dr, 50>>) :
        x \in {50, 51}, dl \in {3, 5}, dr \in {-3, 10}}

\* No process_hand call yet: the clock stands at its first value.
NoMouse ==
    [called |-> FALSE, t |-> MouseStartTime,
     hand |-> MouseHand(<<0, 0>>, <<0, 0>>, <<0, 0>>), before |-> NewMouse,
     moved |-> FALSE, left |-> FALSE, right |-> FALSE, raised |-> FALSE]

\* Samples offered to the classifier next to its snapshot file.
PersistMaxSamples == 2
PersistLabels == {"A"}
PersistVecs == {0, 60006}

\* Neighbour counts GestureClassifier is constructed with: one that the
\* buffer outgrows, and the default.
ConfiguredK == {2, n_neighbors}

\* Labels handed to the dispatcher on its own.
DispatchLabels == {"A", "B", "C", "Unknown", "None", NoneLabel}

\* Names the configuration endpoints are called with.
ConfigNames == {"A", "C"}

\* gesture_configs.json as found at start-up: two gestures bound to the same
\* preset, and an entry that is named like the rejection sentinel.
StoredGestureMap ==
    [g \in {"A", "B", "Unknown"} |->
        IF g = "Unknown" THEN "Volume Mute" ELSE "Volume Up"]

(***************************************************************************)
(* The classifier on its own: add_sample, train and predict called in any  *)
(* order.                                                                  *)
(***************************************************************************)
InitShared ==
    /\ gesture_model = NewClassifier
    /\ desktop_ctrl = NewController(StoredGestureMap)
    /\ now = StartTime
    /\ pred = NoPredict
    /\ disp = NoDispatch
    /\ last_success = <<>>
    /\ fitted = FALSE
    /\ snapshot = None
    /\ load = NoLoad
    /\ mouse_ctrl = NewMouse
    /\ mouse = NoMouse
    /\ normalized = NoNormalize
    /\ process_every_n = PROCESS_EVERY_N
    /\ workers = NoWorkers
    /\ config_store = NoConfigStore
    /\ requests = NoRequests
    /\ jarvis_service = None
    /\ poller = NoPoller

InitNoSessions == conn = <<>> /\ active_websockets = {}

CAddSample(label, v) ==
    /\ Len(gesture_model.X_data) < MaxSamples
    /\ gesture_model' = add_sample(gesture_model, label, v)
    /\ pred' = NoPredict
    /\ UNCHANGED <<mouse_ctrl, mouse, snapshot, load, desktop_ctrl, now, conn, active_websockets, disp, last_success, fitted, normalized, process_every_n, workers, config_store, requests, jarvis_service, poller>>

CTrain ==
    /\ gesture_model' = train(gesture_model)
    /\ fitted' = (fitted \/ Len(gesture_model.X_data) > 0)
    /\ pred' = NoPredict
    /\ UNCHANGED <<mouse_ctrl, mouse, snapshot, load, desktop_ctrl, now, conn, active_websockets, disp, last_success, normalized, process_every_n, workers, config_store, requests, jarvis_service, poller>>

CPredict(v) ==
    /\ \E r \in predict(gesture_model, v) :
          pred' = [called |-> TRUE, query |-> v, result |-> r]
    /\ UNCHANGED <<mouse_ctrl, mouse, snapshot, load, gesture_model, desktop_ctrl, now, conn, active_websockets, disp,
                   last_success, fitted, normalized, process_every_n, workers, config_store, requests, jarvis_service, poller>>

\* The classifier is constructed with one of the configured neighbour
\* counts; the sessions use the default.
ClassifierInit ==
    /\ \E k \in ConfiguredK : gesture_model = [NewClassifier EXCEPT !.n_neighbors = k]
    /\ desktop_ctrl = NewController(StoredGestureMap)
    /\ now = StartTime
    /\ pred = NoPredict
    /\ disp = NoDispatch
    /\ last_success = <<>>
    /\ fitted = FALSE
    /\ snapshot = None
    /\ load = NoLoad
    /\ mouse_ctrl = NewMouse
    /\ mouse = NoMouse
    /\ normalized = NoNormalize
    /\ process_every_n = PROCESS_EVERY_N
    /\ workers = NoWorkers
    /\ config_store = NoConfigStore
    /\ requests = NoRequests
    /\ jarvis_service = None
    /\ poller = NoPoller
    /\ InitNoSessions

ClassifierNext ==
    \/ \E label \in TrainLabels, v \in Vecs : CAddSample(label, v)
    \/ CTrain
    \/ \E v \in Vecs : CPredict(v)

SpecClassifier == ClassifierInit /\ [][ClassifierNext]_vars

(***************************************************************************)
(* The classifier and its snapshot file: the process starts and loads the  *)
(* file (main.py:66); if that raises, the import fails and the process is  *)
(* gone until it is started again.  A running process adds samples, trains,*)
(* predicts and saves; the file is damaged behind its back.                *)
(***************************************************************************)
Running == load.called /\ ~load.raised

PAddSample(label, v) ==
    /\ Len(gesture_model.X_data) < PersistMaxSamples
    /\ gesture_model' = add_sample(gesture_model, label, v)
    /\ pred' = NoPredict
    /\ UNCHANGED <<desktop_ctrl, now, conn, active_websockets, disp,
                   last_success, fitted, snapshot, load, mouse_ctrl, mouse, normalized, process_every_n, workers, config_store, requests, jarvis_service, poller>>

PSave ==
    /\ Running
    /\ snapshot' = save_model(gesture_model)
    /\ UNCHANGED <<gesture_model, desktop_ctrl, now, conn, active_websockets,
                   pred, disp, last_success, fitted, load, mouse_ctrl, mouse, normalized, process_every_n, workers, config_store, requests, jarvis_service, poller>>

\* The file is removed, truncated, or replaced by a pickle without one key.
PDamage ==
    /\ snapshot # None
    /\ \/ snapshot' = None
       \/ snapshot' = Some([snapshot[1] EXCEPT !.readable = FALSE])
       \/ \E i \in 1..Len(PayloadKeys) :
             snapshot' = Some([snapshot[1] EXCEPT !.keys = @ \ {PayloadKeys[i]}])
    /\ UNCHANGED <<gesture_model, desktop_ctrl, now, conn, active_websockets,
                   pred, disp, last_success, fitted, load, mouse_ctrl, mouse, normalized, process_every_n, workers, config_store, requests, jarvis_service, poller>>

PLoad ==
    /\ ~load.called
    /\ \E r \in {load_model(gesture_model, snapshot)} :
          /\ gesture_model' = r.gm
          /\ load' = [called |-> TRUE, ok |-> r.ok, raised |-> r.raised,
                      fresh |-> Blank(gesture_model),
                      blank_after |-> Blank(r.gm)]
          /\ fitted' = (fitted \/ r.gm.is_trained)
    /\ pred' = NoPredict
    /\ UNCHANGED <<desktop_ctrl, now, conn, active_websockets, disp,
                   last_success, snapshot, mouse_ctrl, mouse, normalized, process_every_n, workers, config_store, requests, jarvis_service, poller>>

\* The process is started again: a classifier as constructed, the file as
\* it was left.
PRestart ==
    /\ load.called
    /\ gesture_model' = NewClassifier
    /\ pred' = NoPredict
    /\ load' = NoLoad
    /\ fitted' = FALSE
    /\ UNCHANGED <<desktop_ctrl, now, conn, active_websockets, disp,
                   last_success, snapshot, mouse_ctrl, mouse, normalized, process_every_n, workers, config_store, requests, jarvis_service, poller>>

PersistInit == InitShared /\ InitNoSessions

PersistNext ==
    \/ \E label \in PersistLabels, v \in PersistVecs :
          Running /\ PAddSample(label, v)
    \/ Running /\ CTrain
    \/ \E v \in PersistVecs : Running /\ CPredict(v)
    \/ PSave
    \/ PDamage
    \/ PLoad
    \/ PRestart

SpecPersist == PersistInit /\ [][PersistNext]_vars

(***************************************************************************)
(* The mouse engine on its own: process_hand called as time passes.        *)
(***************************************************************************)
MProcessHand(hand, dt, move_ok, left_ok, right_ok) ==
    /\ mouse.t + dt <= MouseMaxTime
    /\ \E r \in {process_hand(mouse_ctrl, hand, mouse.t + dt,
                              move_ok, left_ok, right_ok)} :
          /\ mouse_ctrl' = r.mc
          /\ mouse' = MouseRecord(mouse_ctrl, hand, mouse.t + dt, r)
    /\ UNCHANGED <<gesture_model, desktop_ctrl, now, conn, active_websockets,
                   pred, disp, last_success, fitted, snapshot, load, normalized, process_every_n, workers, config_store, requests, jarvis_service, poller>>

MouseInit == InitShared /\ InitNoSessions

\* At most one of the three pyautogui calls fails in an invocation.
MouseNext ==
    \E hand \in MouseHands, dt \in 0..MouseMaxStep :
        \/ MProcessHand(hand, dt, TRUE, TRUE, TRUE)
        \/ MProcessHand(hand, dt, FALSE, TRUE, TRUE)
        \/ MProcessHand(hand, dt, TRUE, FALSE, TRUE)
        \/ MProcessHand(hand, dt, TRUE, TRUE, FALSE)

SpecMouse == MouseInit /\ [][MouseNext]_vars

(***************************************************************************)
(* The engine's cursor tracking on its own: the index tip anywhere in the  *)
(* frame, on its margins and outside it, with moves and clicks that fail.  *)
(***************************************************************************)
\* Index-tip abscissas in hundredths: left of the frame, inside the active
\* zone, and right of the frame; the tip is below the frame throughout.
CursorCoords == {-10, 60, 120}
CursorBelow == 120

\* Hands for the cursor: the fingers spread, or index tip and thumb
\* pinched.
CursorHands ==
    {MouseHand(<<x, CursorBelow>>, <<x + d, CursorBelow>>, <<x + 40, CursorBelow>>) :
        x \in CursorCoords, d \in {3, 20}}

CursorNext ==
    \E hand \in CursorHands :
        \/ MProcessHand(hand, 0, TRUE, TRUE, TRUE)
        \/ MProcessHand(hand, 0, FALSE, TRUE, TRUE)
        \/ MProcessHand(hand, 0, TRUE, FALSE, TRUE)

SpecCursor == MouseInit /\ [][CursorNext]_vars

(***************************************************************************)
(* vision.py: normalize_landmarks.  A landmark is a point <<x, y, z>> in   *)
(* whole hundredths of the frame; the vector returned is in 1/Scale.       *)
(***************************************************************************)
NumLandmarks == 21

\* One hundredth of the frame, in 1/Scale.
LandmarkUnit == Scale \div 100

Sub3(p, q) == <<p[1] - q[1], p[2] - q[2], p[3] - q[3]>>
Add3(p, q) == <<p[1] + q[1], p[2] + q[2], p[3] + q[3]>>
SqNorm3(p) == p[1] * p[1] + p[2] * p[2] + p[3] * p[3]

\* The square root, for the squares that the landmark sets below produce.
ISqrt(n) == CHOOSE r \in 0..n : r * r <= n /\ (r + 1) * (r + 1) > n

\* np.linalg.norm(p) in hundredths.
Norm3(p) == ISqrt(SqNorm3(p))

\* coords.flatten(): landmark i (counted from 0) fills places 3i+1 .. 3i+3.
Flatten(coords) ==
    [k \in 1..(3 * Len(coords)) |-> coords[((k - 1) \div 3) + 1][((k - 1) % 3) + 1]]

\* coords /= d, and coords left as they are, both in 1/Scale.
Scaled(coords, d) ==
    [i \in 1..Len(coords) |->
        <<(coords[i][1] * Scale) \div d, (coords[i][2] * Scale) \div d,
          (coords[i][3] * Scale) \div d>>]

Unscaled(coords) ==
    [i \in 1..Len(coords) |->
        <<coords[i][1] * LandmarkUnit, coords[i][2] * LandmarkUnit,
          coords[i][3] * LandmarkUnit>>]

\* Mutant: the scale is the distance from the wrist to the middle-finger
\* tip (landmark 12).
normalize_landmarks_by_tip(landmarks) ==
    LET coords == [i \in 1..Len(landmarks) |-> Sub3(landmarks[i], landmarks[1])]
        tip_dist == Norm3(coords[13])
    IN  [raised |-> FALSE,
         vector |-> Flatten(IF tip_dist > 0 THEN Scaled(coords, tip_dist)
                            ELSE Unscaled(coords))]

\* normalize_landmarks: translate the wrist (landmark 0) to the origin,
\* divide by the distance to the middle-finger base (landmark 9) if that
\* distance is positive, flatten.
normalize_landmarks(landmarks) ==
    LET coords == [i \in 1..Len(landmarks) |-> Sub3(landmarks[i], landmarks[1])]
        mcp9_dist == Norm3(coords[10])
    IN  [raised |-> FALSE,
         vector |-> Flatten(IF mcp9_dist > 0 THEN Scaled(coords, mcp9_dist)
                            ELSE Unscaled(coords))]

\* Hands given to the normalizer: the wrist, the middle-finger base and the
\* middle-finger tip vary; every other landmark lies at a fixed offset from
\* the wrist.
Wrists == {<<0, 0, 0>>, <<50, 50, 0>>, <<20, 70, 0>>, <<100, 100, -5>>}
Mcp9Offsets == {<<0, 0, 0>>, <<3, 4, 0>>, <<0, -5, 0>>, <<-6, 0, 8>>,
                <<0, -10, 0>>, <<0, 0, 5>>}
TipOffsets == {<<0, 0, 0>>, <<0, -20, 0>>, <<6, -8, 5>>, <<-7, 9, -3>>,
               <<3, 4, 0>>}

Landmarks(wrist, mcp9, tip) ==
    [i \in 1..NumLandmarks |->
        IF i = 1 THEN wrist
        ELSE IF i = 10 THEN Add3(wrist, mcp9)
        ELSE IF i = 13 THEN Add3(wrist, tip)
        ELSE Add3(wrist, <<i - 11, 1 - i, 0>>)]

NNormalize(landmarks) ==
    /\ normalized' = [called |-> TRUE, landmarks |-> landmarks,
                      result |-> normalize_landmarks(landmarks)]
    /\ UNCHANGED <<gesture_model, desktop_ctrl, now, conn, active_websockets,
                   pred, disp, last_success, fitted, snapshot, load,
                   mouse_ctrl, mouse, process_every_n, workers, config_store, requests, jarvis_service, poller>>

NormalizeInit == InitShared /\ InitNoSessions

NormalizeNext ==
    \E wrist \in Wrists, mcp9 \in Mcp9Offsets, tip \in TipOffsets :
        NNormalize(Landmarks(wrist, mcp9, tip))

SpecNormalize == NormalizeInit /\ [][NormalizeNext]_vars

(***************************************************************************)
(* The dispatcher as the sessions call it: each session awaits             *)
(* asyncio.to_thread(desktop_ctrl.execute, gesture_label), so the calls of *)
(* different sessions run in different threads of the default executor on  *)
(* the one DesktopController, which holds no lock.  A thread is between    *)
(* calls ("idle") or has passed the cooldown test and is inside            *)
(* _run_action ("run"), a subprocess call during which other threads run.  *)
(* Its locals are the gesture and `now`; fired is history: the gesture and  *)
(* the `now` of the thread's last call in which _run_action succeeded      *)
(* (None if it never did).                                                 *)
(***************************************************************************)
Threads == {"t1", "t2"}

IdleThread == [pc |-> "idle", gesture |-> "None", now |-> 0, fired |-> None]

\* DesktopController.execute up to the call of _run_action, in thread th
\* at time t = time.time(): the sentinel filter, the map lookup and the
\* cooldown test on the shared timestamps.
execute_enter(ws, th, dc, gesture, t) ==
    IF gesture \in {"Unknown", "None", NoneLabel} THEN ws
    ELSE IF gesture \notin DOMAIN dc.gesture_map THEN ws
    ELSE IF (t - Get(dc.last_action_time, gesture, 0)) < cooldown THEN ws
    ELSE [ws EXCEPT ![th] = [@ EXCEPT !.pc = "run", !.gesture = gesture,
                                      !.now = t]]

\* The rest of execute once _run_action has returned run_ok: on success the
\* shared timestamp of the gesture is set to the thread's `now`.
execute_leave(dc, w, run_ok) ==
    IF run_ok
    THEN [dc EXCEPT !.last_action_time = Put(@, w.gesture, w.now)]
    ELSE dc

\* Gestures the sessions predict while the threads are observed.
ThreadLabels == {"A", "B", "Unknown"}

TEnter(th, gesture) ==
    /\ workers[th].pc = "idle"
    /\ workers' = execute_enter(workers, th, desktop_ctrl, gesture, now)
    /\ UNCHANGED <<gesture_model, desktop_ctrl, now, conn, active_websockets,
                   pred, disp, last_success, fitted, snapshot, load,
                   mouse_ctrl, mouse, normalized, process_every_n,
                   config_store, requests, jarvis_service, poller>>

TLeave(th, run_ok) ==
    /\ workers[th].pc = "run"
    /\ desktop_ctrl' = execute_leave(desktop_ctrl, workers[th], run_ok)
    /\ workers' = [workers EXCEPT ![th] =
                       [@ EXCEPT !.pc = "idle", !.gesture = "None", !.now = 0,
                                 !.fired = IF run_ok
                                           THEN Some(<<workers[th].gesture,
                                                       workers[th].now>>)
                                           ELSE @]]
    /\ UNCHANGED <<gesture_model, now, conn, active_websockets,
                   pred, disp, last_success, fitted, snapshot, load,
                   mouse_ctrl, mouse, normalized, process_every_n,
                   config_store, requests, jarvis_service, poller>>

TTick ==
    /\ now < MaxTime
    /\ now' = now + 1
    /\ UNCHANGED <<gesture_model, desktop_ctrl, conn, active_websockets,
                   pred, disp, last_success, fitted, snapshot, load,
                   mouse_ctrl, mouse, normalized, process_every_n, workers, config_store, requests, jarvis_service, poller>>

ThreadsInit ==
    /\ gesture_model = NewClassifier
    /\ desktop_ctrl = NewController(StoredGestureMap)
    /\ now = StartTime
    /\ pred = NoPredict
    /\ disp = NoDispatch
    /\ last_success = <<>>
    /\ fitted = FALSE
    /\ snapshot = None
    /\ load = NoLoad
    /\ mouse_ctrl = NewMouse
    /\ mouse = NoMouse
    /\ normalized = NoNormalize
    /\ process_every_n = PROCESS_EVERY_N
    /\ workers = [th \in Threads |-> IdleThread]
    /\ config_store = NoConfigStore
    /\ requests = NoRequests
    /\ jarvis_service = None
    /\ poller = NoPoller
    /\ InitNoSessions

ThreadsNext ==
    \/ \E th \in Threads, gesture \in ThreadLabels : TEnter(th, gesture)
    \/ \E th \in Threads, run_ok \in BOOLEAN : TLeave(th, run_ok)
    \/ TTick

SpecThreads == ThreadsInit /\ [][ThreadsNext]_vars

(***************************************************************************)
(* gesture_config.py -- GestureConfigStore, and the three handlers that    *)
(* change the gesture mapping: POST /api/gestures and                      *)
(* DELETE /api/gestures/{name}, which are plain `def` endpoints and so run *)
(* in threads of the server's pool, and the update_mapping command of a    *)
(* session, which runs in the event-loop thread.  None takes a lock.  Each *)
(* handler changes the store, builds a map from the store, and then        *)
(* assigns it to desktop_ctrl.gesture_map; a thread may be preempted       *)
(* between these.                                                          *)
(***************************************************************************)
\* GestureConfigEntry without its name.
Entry(action_type, action, keys) ==
    [action_type |-> action_type, action |-> action, keys |-> keys]

\* GestureConfigStore.save: the file takes the entries unless writing fails,
\* which is logged and ignored.
save(cs, save_ok) == IF save_ok THEN [cs EXCEPT !.file = cs.configs] ELSE cs

\* GestureConfigStore.upsert
upsert(cs, name, entry, save_ok) ==
    save([cs EXCEPT !.configs = Put(@, name, entry)], save_ok)

\* GestureConfigStore.delete: the store after the call and whether the
\* name was found.
delete(cs, name, save_ok) ==
    IF name \in DOMAIN cs.configs
    THEN [cs |-> save([cs EXCEPT !.configs =
                          [g \in (DOMAIN cs.configs) \ {name} |-> cs.configs[g]]],
                      save_ok),
          found |-> TRUE]
    ELSE [cs |-> cs, found |-> FALSE]

\* GestureConfigStore.build_gesture_map
build_gesture_map(cs) ==
    [name \in DOMAIN cs.configs |->
        IF cs.configs[name].action_type = "keyboard"
        THEN "keyboard:" \o cs.configs[name].keys
        ELSE cs.configs[name].action]

\* The threads that run the handlers, and a thread outside any handler.
\* kind is the handler, name its gesture, built the map its
\* build_gesture_map call returned (the value about to be assigned).
RequestThreads == {"r1", "r2"}
IdleRequest == [pc |-> "idle", kind |-> "none", name |-> "", built |-> <<>>]

\* Bodies the handlers are called with: a preset, a keyboard shortcut, and
\* a body with neither action nor keys.
Entries == {Entry("preset", "Volume Up", ""), Entry("keyboard", "", "cmd+a"),
            Entry("preset", "", "")}

\* Whether writing gesture_configs.json succeeds while the handlers run.
SaveOutcomes == {TRUE}

\* gesture_configs.json as found at start-up by the handlers.
StoredConfigs == [g \in {"A"} |-> Entry("preset", "Volume Mute", "")]

\* First statement of upsert_gesture, or of the update_mapping branch once
\* its test `gesture and (action or keys)` has passed.
RUpsert(r, kind, name, entry, save_ok) ==
    /\ requests[r].pc = "idle"
    /\ kind \in {"upsert", "update_mapping"}
    /\ IF kind = "update_mapping" /\ (entry.action = "" /\ entry.keys = "")
       THEN UNCHANGED <<config_store, requests, jarvis_service, poller>>
       ELSE /\ config_store' = upsert(config_store, name, entry, save_ok)
            /\ requests' = [requests EXCEPT ![r] =
                                [IdleRequest EXCEPT !.pc = "build", !.kind = kind,
                                                    !.name = name]]
    /\ UNCHANGED <<gesture_model, desktop_ctrl, now, conn, active_websockets,
                   pred, disp, last_success, fitted, snapshot, load,
                   mouse_ctrl, mouse, normalized, process_every_n, workers,
                   jarvis_service, poller>>

\* First statement of delete_gesture; a name that is not stored ends the
\* handler.
RDelete(r, name, save_ok) ==
    /\ requests[r].pc = "idle"
    /\ \E d \in {delete(config_store, name, save_ok)} :
          /\ config_store' = d.cs
          /\ requests' = IF d.found
                         THEN [requests EXCEPT ![r] =
                                  [IdleRequest EXCEPT !.pc = "build",
                                                      !.kind = "delete",
                                                      !.name = name]]
                         ELSE requests
    /\ UNCHANGED <<gesture_model, desktop_ctrl, now, conn, active_websockets,
                   pred, disp, last_success, fitted, snapshot, load,
                   mouse_ctrl, mouse, normalized, process_every_n, workers,
                   jarvis_service, poller>>

\* The right-hand side of `desktop_ctrl.gesture_map = ...`.
RBuild(r) ==
    /\ requests[r].pc = "build"
    /\ requests' = [requests EXCEPT ![r] =
                        [@ EXCEPT !.pc = "assign",
                                  !.built = build_gesture_map(config_store)]]
    /\ UNCHANGED <<gesture_model, desktop_ctrl, now, conn, active_websockets,
                   pred, disp, last_success, fitted, snapshot, load,
                   mouse_ctrl, mouse, normalized, process_every_n, workers,
                   config_store, jarvis_service, poller>>

\* The assignment itself; the handler returns (update_mapping sends its
\* status message).
RAssign(r) ==
    /\ requests[r].pc = "assign"
    /\ desktop_ctrl' = [desktop_ctrl EXCEPT !.gesture_map = requests[r].built]
    /\ requests' = [requests EXCEPT ![r] = IdleRequest]
    /\ UNCHANGED <<gesture_model, now, conn, active_websockets,
                   pred, disp, last_success, fitted, snapshot, load,
                   mouse_ctrl, mouse, normalized, process_every_n, workers,
                   config_store, jarvis_service, poller>>

ConfigInit ==
    /\ gesture_model = NewClassifier
    /\ config_store = [configs |-> StoredConfigs, file |-> StoredConfigs]
    /\ desktop_ctrl = NewController(build_gesture_map(config_store))
    /\ requests = [r \in RequestThreads |-> IdleRequest]
    /\ jarvis_service = None
    /\ poller = NoPoller
    /\ now = StartTime
    /\ pred = NoPredict
    /\ disp = NoDispatch
    /\ last_success = <<>>
    /\ fitted = FALSE
    /\ snapshot = None
    /\ load = NoLoad
    /\ mouse_ctrl = NewMouse
    /\ mouse = NoMouse
    /\ normalized = NoNormalize
    /\ process_every_n = PROCESS_EVERY_N
    /\ workers = NoWorkers
    /\ InitNoSessions

ConfigNext ==
    \/ \E r \in RequestThreads, kind \in {"upsert", "update_mapping"},
          name \in ConfigNames, entry \in Entries, save_ok \in SaveOutcomes :
          RUpsert(r, kind, name, entry, save_ok)
    \/ \E r \in RequestThreads, name \in ConfigNames, save_ok \in SaveOutcomes :
          RDelete(r, name, save_ok)
    \/ \E r \in RequestThreads : RBuild(r)
    \/ \E r \in RequestThreads : RAssign(r)

SpecConfig == ConfigInit /\ [][ConfigNext]_vars

(***************************************************************************)
(* jarvis_service.py -- the event log of JarvisService and the polling     *)
(* endpoint GET /api/jarvis/events.  All of it runs in the event-loop      *)
(* thread.  An event is a dict; the log adds "id" and "timestamp".  The    *)
(* log's capacity, 500 in the code, is MaxRetained here.                   *)
(***************************************************************************)
MaxRetained == 3
MaxEvents == 5

\* JarvisService.__init__
NewJarvis ==
    [is_running |-> FALSE, event_seq |-> 0, events |-> <<>>,
     max_events |-> MaxRetained]

\* The last n items of a list, seq[-n:] for 0 < n.
LastN(seq, n) ==
    IF Len(seq) <= n THEN seq ELSE SubSeq(seq, Len(seq) - n + 1, Len(seq))

\* {"id": ..., "timestamp": ..., **event}: keys of the event win.
Enriched(id, t, event) ==
    [k \in {"id", "timestamp"} \cup DOMAIN event |->
        IF k \in DOMAIN event THEN event[k]
        ELSE IF k = "id" THEN id ELSE t]

\* Mutant: an overfull log is cut to its first max_events entries.
record_event_keep_oldest(js, t, event) ==
    LET seq == js.event_seq + 1
        events == Append(js.events, Enriched(seq, t, event))
    IN  [js EXCEPT !.event_seq = seq,
                   !.events = IF Len(events) > js.max_events
                              THEN SubSeq(events, 1, js.max_events)
                              ELSE events]

\* JarvisService._record_event (and _emit_event, whose broadcast goes to
\* the connected sessions) at time t.
record_event(js, t, event) ==
    LET seq == js.event_seq + 1
        events == Append(js.events, Enriched(seq, t, event))
    IN  [js EXCEPT !.event_seq = seq,
                   !.events = IF Len(events) > js.max_events
                              THEN LastN(events, js.max_events)
                              ELSE events]

\* JarvisService.get_events
get_events(js, since_id, limit) ==
    LET events == SelectSeq(js.events,
                            LAMBDA e : Get(e, "id", 0) > since_id)
    IN  IF limit > 0 THEN SubSeq(events, 1, Min(limit, Len(events)))
        ELSE events

\* GET /api/jarvis/events: the events and the id to pass next time.
get_jarvis_events(js, since_id, limit) ==
    IF js = None
    THEN [events |-> <<>>, last_event_id |-> since_id]
    ELSE LET events == get_events(js[1], since_id, limit)
         IN  [events |-> events,
              last_event_id |-> IF Len(events) > 0
                                THEN Get(events[Len(events)], "id", since_id)
                                ELSE since_id]

\* What the service emits while it runs (_parse_output).
EmittedEvents ==
    {[type |-> "state_change", state |-> "listening"],
     [type |-> "user_speech", state |-> "processing"]}

\* Arguments clients call the endpoint with.
PollLimits == {-1, 0, 1, 2, 200}
PollSince == {-1, 0, 2}

\* POST /api/jarvis/start: the service is created if there is none; start
\* emits jarvis_started unless it is running already or cannot start.
JStart(can_start) ==
    /\ \E js \in {IF jarvis_service = None THEN NewJarvis ELSE jarvis_service[1]} :
          IF js.is_running \/ ~can_start
          THEN jarvis_service' = Some(js)
          ELSE /\ js.event_seq < MaxEvents
               /\ jarvis_service' =
                      Some(record_event([js EXCEPT !.is_running = TRUE], now,
                                        [type |-> "jarvis_started",
                                         state |-> "listening"]))
    /\ UNCHANGED <<gesture_model, desktop_ctrl, now, conn, active_websockets,
                   pred, disp, last_success, fitted, snapshot, load,
                   mouse_ctrl, mouse, normalized, process_every_n, workers,
                   config_store, requests, poller>>

\* POST /api/jarvis/stop
JStop ==
    /\ jarvis_service # None
    /\ jarvis_service[1].is_running
    /\ jarvis_service[1].event_seq < MaxEvents
    /\ jarvis_service' =
           Some(record_event([jarvis_service[1] EXCEPT !.is_running = FALSE], now,
                             [type |-> "jarvis_stopped", state |-> "idle"]))
    /\ UNCHANGED <<gesture_model, desktop_ctrl, now, conn, active_websockets,
                   pred, disp, last_success, fitted, snapshot, load,
                   mouse_ctrl, mouse, normalized, process_every_n, workers,
                   config_store, requests, poller>>

\* A line of the assistant's output that _parse_output turns into an event.
JEmit(event) ==
    /\ jarvis_service # None
    /\ jarvis_service[1].is_running
    /\ jarvis_service[1].event_seq < MaxEvents
    /\ jarvis_service' = Some(record_event(jarvis_service[1], now, event))
    /\ UNCHANGED <<gesture_model, desktop_ctrl, now, conn, active_websockets,
                   pred, disp, last_success, fitted, snapshot, load,
                   mouse_ctrl, mouse, normalized, process_every_n, workers,
                   config_store, requests, poller>>

\* Ids of a list of events.
Ids(events) == [i \in 1..Len(events) |-> Get(events[i], "id", 0)]

\* A call of the endpoint by a client.  A call that passes the id the
\* last answer gave is the poller's next call and adds to what it got; any
\* other call starts the poller anew from its since_id.
JPoll(since_id, limit) ==
    /\ \E r \in {get_jarvis_events(jarvis_service, since_id, limit)} :
          poller' =
             [last_event_id |-> r.last_event_id,
              got |-> IF since_id = poller.last_event_id
                      THEN poller.got \o Ids(r.events)
                      ELSE Ids(r.events),
              call |-> [called |-> TRUE, since_id |-> since_id, limit |-> limit,
                        retained |-> IF jarvis_service = None THEN <<>>
                                     ELSE Ids(jarvis_service[1].events),
                        events |-> r.events,
                        last_event_id |-> r.last_event_id]]
    /\ UNCHANGED <<gesture_model, desktop_ctrl, now, conn, active_websockets,
                   pred, disp, last_success, fitted, snapshot, load,
                   mouse_ctrl, mouse, normalized, process_every_n, workers,
                   config_store, requests, jarvis_service>>

JarvisInit == InitShared /\ InitNoSessions

JarvisNext ==
    \/ \E can_start \in BOOLEAN : JStart(can_start)
    \/ JStop
    \/ \E event \in EmittedEvents : JEmit(event)
    \/ \E since_id \in PollSince, limit \in PollLimits : JPoll(since_id, limit)
    \/ \E limit \in PollLimits : JPoll(poller.last_event_id, limit)

SpecJarvis == JarvisInit /\ [][JarvisNext]_vars

(***************************************************************************)
(* The dispatcher on its own: execute called for any label as time passes. *)
(***************************************************************************)
DExecute(gesture, dt, run_ok) ==
    /\ now + dt <= MaxTime
    /\ now' = now + dt
    /\ LET r == execute(desktop_ctrl, gesture, now', run_ok)
       IN  /\ desktop_ctrl' = r.dc
           /\ disp' = DispatchRecord(desktop_ctrl, gesture, now', run_ok, r,
                                     last_success)
           /\ last_success' = IF r.invoked /\ run_ok
                              THEN Put(last_success, gesture, now')
                              ELSE last_success
    /\ UNCHANGED <<mouse_ctrl, mouse, snapshot, load, gesture_model, conn, active_websockets, pred, fitted, normalized, process_every_n, workers, config_store, requests, jarvis_service, poller>>

DUpsert(name, action) ==
    /\ desktop_ctrl' = upsert_gesture(desktop_ctrl, name, action)
    /\ UNCHANGED <<mouse_ctrl, mouse, snapshot, load, gesture_model, now, conn, active_websockets, pred, disp,
                   last_success, fitted, normalized, process_every_n, workers, config_store, requests, jarvis_service, poller>>

DDelete(name) ==
    /\ desktop_ctrl' = delete_gesture(desktop_ctrl, name)
    /\ UNCHANGED <<mouse_ctrl, mouse, snapshot, load, gesture_model, now, conn, active_websockets, pred, disp,
                   last_success, fitted, normalized, process_every_n, workers, config_store, requests, jarvis_service, poller>>

DispatchInit == InitShared /\ InitNoSessions

DispatchNext ==
    \/ \E gesture \in DispatchLabels, dt \in 0..MaxStep, run_ok \in BOOLEAN :
          DExecute(gesture, dt, run_ok)
    \/ \E name \in ConfigNames : DUpsert(name, "Volume Up")
    \/ \E name \in ConfigNames : DDelete(name)

SpecDispatch == DispatchInit /\ [][DispatchNext]_vars

(***************************************************************************)
(* main.py -- websocket_endpoint, the per-connection session loop          *)
(***************************************************************************)
QC_VELOCITY_THRESHOLD == 3
DefaultTargetFrames == 200

\* A local name that no assignment has bound yet.
Unbound == "<unbound>"

\* JSON messages sent to the client.  An optional key is None when absent.
Payload(gesture, confidence, landmarks, status, action, captured, target) ==
    [gesture |-> gesture, confidence |-> confidence, landmarks |-> landmarks,
     status |-> status, action |-> action,
     frames_captured |-> captured, target_frames |-> target]

StatusMsg(status) == [status |-> status]
ErrorMsg(text) == [error |-> text]

\* What the current pass of the while-loop has done so far, kept for the
\* properties: the command received, whether a frame was read, whether it
\* held a hand, the mode in which it was processed, the outcome of the
\* velocity check, whether the target was reached, the action the executor
\* ran successfully (None if none) and whether the pass raised; for a frame
\* processed in Training also the label and target of the run, the wrist
\* position, and whether it was the first frame with a hand since the run
\* started or the hand was lost.
\* What a pass did with the mouse engine: whether it called process_hand
\* and the click events emitted.
NoSessionMouse == [called |-> FALSE, left |-> FALSE, right |-> FALSE]

NoEvent ==
    [cmd |-> "none", frame |-> FALSE, hand |-> FALSE, training |-> FALSE,
     accepted |-> FALSE, rejected |-> FALSE, reached |-> FALSE,
     executed |-> None, raised |-> FALSE,
     label |-> "", target |-> 0, wrist |-> None, first |-> FALSE,
     mouse |-> NoSessionMouse,
     rx |-> [command |-> "none", label |-> "", target_frames |-> 0],
     timestamps |-> 0, predicted |-> FALSE, after_rejected |-> FALSE]

\* The locals of websocket_endpoint before the connection is accepted.
\* pc is the place in the loop: "receive" before step 1, "frame" before
\* step 2.  first_hand is history: no frame with a hand has been processed
\* since the last start_training or the last pass that lost the hand.
\* last_rejected is history: the last frame with a hand of the current
\* training run was rejected by the velocity check.
\* added is history: the number of add_sample calls of the current training
\* run, kept until the pass that ended the run is over.
NewSession ==
    [phase |-> "idle", exit |-> "none", cap |-> "none", landmarker |-> "none",
     pc |-> "receive",
     training_mode |-> FALSE, training_label |-> "", mouse_enabled |-> TRUE,
     frame_count |-> 0, target_frames |-> DefaultTargetFrames,
     frames_captured |-> 0, prev_wrist_coords |-> None,
     last_payload |-> Payload("None", 0, None, "active", None, None, None),
     triggered_action |-> Unbound,
     sent |-> <<>>, ev |-> NoEvent, first_hand |-> FALSE, added |-> 0,
     last_rejected |-> FALSE]

Send(s, msg) == [s EXCEPT !.sent = Append(@, msg)]

\* Mutant: the finally block does not close the landmarker.
Close_keep_landmarker(s, why) ==
    [NewSession EXCEPT !.phase = "closed", !.exit = why,
                       !.cap = "released", !.landmarker = s.landmarker,
                       !.sent = s.sent, !.added = s.added,
                       !.ev = [s.ev EXCEPT !.raised = (why = "exception")]]

\* except WebSocketDisconnect / except Exception, then finally: the handles
\* are released and the coroutine returns, which ends its locals.  What the
\* last pass sent and did is kept for the properties.
Close(s, why) ==
    [NewSession EXCEPT !.phase = "closed", !.exit = why,
                       !.cap = "released", !.landmarker = "closed",
                       !.sent = s.sent, !.added = s.added,
                       !.ev = [s.ev EXCEPT !.raised = (why = "exception")]]

Raise(w, why) == [w EXCEPT !.s = Close(w.s, why)]

\* np.linalg.norm(current - prev) on squares.
SqDist(a, b) == (a[1] - b[1]) * (a[1] - b[1]) + (a[2] - b[2]) * (a[2] - b[2])

\* Mutant: the velocity test is dist >= QC_VELOCITY_THRESHOLD.
TooFast_geq(current, prev) ==
    SqDist(current, prev) >= QC_VELOCITY_THRESHOLD * QC_VELOCITY_THRESHOLD

\* dist > QC_VELOCITY_THRESHOLD
TooFast(current, prev) ==
    SqDist(current, prev) > QC_VELOCITY_THRESHOLD * QC_VELOCITY_THRESHOLD

\* Mutant: text that is not JSON is answered with an error message.
Intake_answer_non_json(w, rx) ==
    LET s == [w.s EXCEPT !.ev.cmd = rx.command, !.ev.rx = rx]
    IN
    CASE rx.command = "none" -> w
      [] rx.command = "non_json" ->
            [w EXCEPT !.s = Send(s, ErrorMsg("Invalid JSON"))]
      [] rx.command = "disconnect" -> Raise([w EXCEPT !.s = s], "disconnect")
      [] rx.command = "not_an_object" -> Raise([w EXCEPT !.s = s], "exception")
      [] rx.command = "start_training" ->
            [w EXCEPT !.s = [s EXCEPT !.training_mode = TRUE,
                                      !.training_label = rx.label,
                                      !.target_frames = rx.target_frames,
                                      !.frames_captured = 0,
                                      !.prev_wrist_coords = None,
                                      !.first_hand = TRUE,
                                      !.last_rejected = FALSE,
                                      !.added = 0]]
      [] rx.command = "stop_training" ->
            [w EXCEPT !.s = Send([s EXCEPT !.training_mode = FALSE],
                                 StatusMsg("training_complete")),
                      !.gm = train(w.gm),
                      !.file = save_model(train(w.gm)),
                      !.fitted = (w.fitted \/ Len(w.gm.X_data) > 0)]
      [] rx.command = "save_model" ->
            [w EXCEPT !.s = Send(s, StatusMsg("model_saved")),
                      !.file = save_model(w.gm)]
      [] rx.command = "toggle_mouse" ->
            [w EXCEPT !.s = [s EXCEPT !.mouse_enabled = ~s.mouse_enabled]]
      [] OTHER -> [w EXCEPT !.s = s]

\* Mutant: stop_training saves the classifier before it retrains it.
Intake_save_before_train(w, rx) ==
    LET s == [w.s EXCEPT !.ev.cmd = rx.command, !.ev.rx = rx]
    IN
    CASE rx.command = "none" -> w
      [] rx.command = "non_json" -> [w EXCEPT !.s = s]
      [] rx.command = "disconnect" -> Raise([w EXCEPT !.s = s], "disconnect")
      [] rx.command = "not_an_object" -> Raise([w EXCEPT !.s = s], "exception")
      [] rx.command = "start_training" ->
            [w EXCEPT !.s = [s EXCEPT !.training_mode = TRUE,
                                      !.training_label = rx.label,
                                      !.target_frames = rx.target_frames,
                                      !.frames_captured = 0,
                                      !.prev_wrist_coords = None,
                                      !.first_hand = TRUE,
                                      !.last_rejected = FALSE,
                                      !.added = 0]]
      [] rx.command = "stop_training" ->
            [w EXCEPT !.s = Send([s EXCEPT !.training_mode = FALSE],
                                 StatusMsg("training_complete")),
                      !.gm = train(w.gm),
                      !.file = save_model(w.gm),
                      !.fitted = (w.fitted \/ Len(w.gm.X_data) > 0)]
      [] rx.command = "save_model" ->
            [w EXCEPT !.s = Send(s, StatusMsg("model_saved")),
                      !.file = save_model(w.gm)]
      [] rx.command = "toggle_mouse" ->
            [w EXCEPT !.s = [s EXCEPT !.mouse_enabled = ~s.mouse_enabled]]
      [] OTHER -> [w EXCEPT !.s = s]

\* Mutant: start_training keeps the velocity reference of the frames before.
Intake_start_keeps_wrist(w, rx) ==
    LET s == [w.s EXCEPT !.ev.cmd = rx.command, !.ev.rx = rx]
    IN
    CASE rx.command = "none" -> w
      [] rx.command = "non_json" -> [w EXCEPT !.s = s]
      [] rx.command = "disconnect" -> Raise([w EXCEPT !.s = s], "disconnect")
      [] rx.command = "not_an_object" -> Raise([w EXCEPT !.s = s], "exception")
      [] rx.command = "start_training" ->
            [w EXCEPT !.s = [s EXCEPT !.training_mode = TRUE,
                                      !.training_label = rx.label,
                                      !.target_frames = rx.target_frames,
                                      !.frames_captured = 0,
                                      !.first_hand = TRUE,
                                      !.last_rejected = FALSE,
                                      !.added = 0]]
      [] rx.command = "stop_training" ->
            [w EXCEPT !.s = Send([s EXCEPT !.training_mode = FALSE],
                                 StatusMsg("training_complete")),
                      !.gm = train(w.gm),
                      !.file = save_model(train(w.gm)),
                      !.fitted = (w.fitted \/ Len(w.gm.X_data) > 0)]
      [] rx.command = "save_model" ->
            [w EXCEPT !.s = Send(s, StatusMsg("model_saved")),
                      !.file = save_model(w.gm)]
      [] rx.command = "toggle_mouse" ->
            [w EXCEPT !.s = [s EXCEPT !.mouse_enabled = ~s.mouse_enabled]]
      [] OTHER -> [w EXCEPT !.s = s]

\* Step 1: the command received in this pass, if any.
Intake(w, rx) ==
    LET s == [w.s EXCEPT !.ev.cmd = rx.command, !.ev.rx = rx]
    IN
    CASE rx.command = "none" -> w
      [] rx.command = "non_json" -> [w EXCEPT !.s = s]
      [] rx.command = "disconnect" -> Raise([w EXCEPT !.s = s], "disconnect")
      [] rx.command = "not_an_object" -> Raise([w EXCEPT !.s = s], "exception")
      [] rx.command = "start_training" ->
            [w EXCEPT !.s = [s EXCEPT !.training_mode = TRUE,
                                      !.training_label = rx.label,
                                      !.target_frames = rx.target_frames,
                                      !.frames_captured = 0,
                                      !.prev_wrist_coords = None,
                                      !.first_hand = TRUE,
                                      !.last_rejected = FALSE,
                                      !.added = 0]]
      [] rx.command = "stop_training" ->
            [w EXCEPT !.s = Send([s EXCEPT !.training_mode = FALSE],
                                 StatusMsg("training_complete")),
                      !.gm = train(w.gm),
                      !.file = save_model(train(w.gm)),
                      !.fitted = (w.fitted \/ Len(w.gm.X_data) > 0)]
      [] rx.command = "save_model" ->
            [w EXCEPT !.s = Send(s, StatusMsg("model_saved")),
                      !.file = save_model(w.gm)]
      [] rx.command = "toggle_mouse" ->
            [w EXCEPT !.s = [s EXCEPT !.mouse_enabled = ~s.mouse_enabled]]
      [] OTHER -> [w EXCEPT !.s = s]

\* Mutant: losing the hand does not reset the velocity reference.
NoHand_no_reset(w) ==
    LET s == w.s
        payload == Payload("None", 0, None,
                           IF s.training_mode THEN "hand_lost" ELSE "active",
                           None,
                           Some(IF s.training_mode THEN s.frames_captured ELSE 0),
                           None)
        s1 == Send([s EXCEPT !.last_payload = payload], payload)
    IN  [w EXCEPT !.s = IF s.training_mode
                        THEN [s1 EXCEPT !.first_hand = TRUE,
                                        !.last_rejected = FALSE]
                        ELSE s1]

\* Step 4, no hand in the frame.
NoHand(w) ==
    LET s == w.s
        payload == Payload("None", 0, None,
                           IF s.training_mode THEN "hand_lost" ELSE "active",
                           None,
                           Some(IF s.training_mode THEN s.frames_captured ELSE 0),
                           None)
        s1 == Send([s EXCEPT !.last_payload = payload], payload)
    IN  [w EXCEPT !.s = IF s.training_mode
                        THEN [s1 EXCEPT !.prev_wrist_coords = None,
                                        !.first_hand = TRUE,
                                        !.last_rejected = FALSE]
                        ELSE s1]

\* Mutant: the auto-stop test is frames_captured > target_frames.
TrainingBranch_stop_late(w, hand) ==
    LET s == w.s
        is_moving_too_fast ==
            s.prev_wrist_coords # None /\ TooFast(hand.wrist, s.prev_wrist_coords)
        s1 == [s EXCEPT !.prev_wrist_coords = hand.wrist, !.first_hand = FALSE,
                        !.last_rejected = is_moving_too_fast,
                        !.ev.after_rejected = s.last_rejected,
                        !.ev.label = s.training_label,
                        !.ev.target = s.target_frames,
                        !.ev.wrist = hand.wrist,
                        !.ev.first = s.first_hand]
    IN  IF is_moving_too_fast
        THEN [w EXCEPT !.s = [s1 EXCEPT !.ev.rejected = TRUE],
                       !.status = "moving_too_fast",
                       !.gesture_label = "None",
                       !.confidence = 0]
        ELSE LET gm1 == add_sample(w.gm, s.training_label, hand.norm)
                 captured == s.frames_captured + 1
                 stop == captured > s.target_frames
             IN  [w EXCEPT
                    !.s = [s1 EXCEPT !.frames_captured = captured,
                                     !.training_mode = IF stop THEN FALSE ELSE @,
                                     !.ev.accepted = TRUE,
                                     !.ev.reached = stop],
                    !.gm = IF stop THEN train(gm1) ELSE gm1,
                    !.file = IF stop THEN save_model(train(gm1)) ELSE @,
                    !.fitted = (w.fitted \/ stop),
                    !.status = "tracking",
                    !.gesture_label = s.training_label,
                    !.confidence = Scale]

\* Mutant: a rejected frame does not become the velocity reference.
TrainingBranch_keep_reference(w, hand) ==
    LET s == w.s
        is_moving_too_fast ==
            s.prev_wrist_coords # None /\ TooFast(hand.wrist, s.prev_wrist_coords)
        s1 == [s EXCEPT !.prev_wrist_coords = IF is_moving_too_fast THEN @
                                                 ELSE hand.wrist,
                        !.first_hand = FALSE,
                        !.last_rejected = is_moving_too_fast,
                        !.ev.after_rejected = s.last_rejected,
                        !.ev.label = s.training_label,
                        !.ev.target = s.target_frames,
                        !.ev.wrist = hand.wrist,
                        !.ev.first = s.first_hand]
    IN  IF is_moving_too_fast
        THEN [w EXCEPT !.s = [s1 EXCEPT !.ev.rejected = TRUE],
                       !.status = "moving_too_fast",
                       !.gesture_label = "None",
                       !.confidence = 0]
        ELSE LET gm1 == add_sample(w.gm, s.training_label, hand.norm)
                 captured == s.frames_captured + 1
                 stop == captured >= s.target_frames
             IN  [w EXCEPT
                    !.s = [s1 EXCEPT !.frames_captured = captured,
                                     !.training_mode = IF stop THEN FALSE ELSE @,
                                     !.ev.accepted = TRUE,
                                     !.ev.reached = stop],
                    !.gm = IF stop THEN train(gm1) ELSE gm1,
                    !.file = IF stop THEN save_model(train(gm1)) ELSE @,
                    !.fitted = (w.fitted \/ stop),
                    !.status = "tracking",
                    !.gesture_label = s.training_label,
                    !.confidence = Scale]

\* Step 7, training branch: velocity check, add_sample, auto-stop.
TrainingBranch(w, hand) ==
    LET s == w.s
        is_moving_too_fast ==
            s.prev_wrist_coords # None /\ TooFast(hand.wrist, s.prev_wrist_coords)
        s1 == [s EXCEPT !.prev_wrist_coords = hand.wrist, !.first_hand = FALSE,
                        !.last_rejected = is_moving_too_fast,
                        !.ev.after_rejected = s.last_rejected,
                        !.ev.label = s.training_label,
                        !.ev.target = s.target_frames,
                        !.ev.wrist = hand.wrist,
                        !.ev.first = s.first_hand]
    IN  IF is_moving_too_fast
        THEN [w EXCEPT !.s = [s1 EXCEPT !.ev.rejected = TRUE],
                       !.status = "moving_too_fast",
                       !.gesture_label = "None",
                       !.confidence = 0]
        ELSE LET gm1 == add_sample(w.gm, s.training_label, hand.norm)
                 captured == s.frames_captured + 1
                 stop == captured >= s.target_frames
             IN  [w EXCEPT
                    !.s = [s1 EXCEPT !.frames_captured = captured,
                                     !.training_mode = IF stop THEN FALSE ELSE @,
                                     !.ev.accepted = TRUE,
                                     !.ev.reached = stop],
                    !.gm = IF stop THEN train(gm1) ELSE gm1,
                    !.file = IF stop THEN save_model(train(gm1)) ELSE @,
                    !.fitted = (w.fitted \/ stop),
                    !.status = "tracking",
                    !.gesture_label = s.training_label,
                    !.confidence = Scale]

\* Step 7, prediction branch: predict, then dispatch the predicted gesture.
PredictionBranch(w, hand, result, run_ok) ==
    LET dispatch == result.label \notin {"Unknown", "None"}
        action_name == Get(w.dc.gesture_map, result.label, NoneLabel)
        r == execute(w.dc, result.label, w.t, run_ok)
    IN  [w EXCEPT
           !.s = [w.s EXCEPT !.triggered_action =
                                 IF dispatch /\ r.success THEN action_name
                                 ELSE NoneLabel,
                             !.ev.predicted = TRUE,
                             !.ev.executed =
                                 IF dispatch /\ r.invoked /\ run_ok
                                 THEN Some(w.dc.gesture_map[result.label])
                                 ELSE None],
           !.dc = IF dispatch THEN r.dc ELSE @,
           !.gesture_label = result.label,
           !.confidence = result.confidence]

\* Step 8: build the payload and send it.  Reading triggered_action before
\* any prediction pass has bound it raises UnboundLocalError.
BuildAndSend(w, hand) ==
    LET s == w.s
    IN  IF ~s.training_mode /\ s.triggered_action = Unbound
        THEN Raise(w, "exception")
        ELSE
        LET payload ==
                Payload(w.gesture_label, round4(w.confidence), Some(hand.id),
                        w.status,
                        IF ~s.training_mode /\ s.triggered_action # NoneLabel
                        THEN Some(s.triggered_action) ELSE None,
                        IF s.frames_captured > 0
                        THEN Some(s.frames_captured) ELSE None,
                        IF s.frames_captured > 0
                        THEN Some(s.target_frames) ELSE None)
        IN  IF s.frames_captured >= s.target_frames /\ ~s.training_mode
            THEN [w EXCEPT !.s = [Send(Send(s, payload),
                                       StatusMsg("training_complete"))
                                  EXCEPT !.frames_captured = 0]]
            ELSE [w EXCEPT !.s = Send([s EXCEPT !.last_payload = payload],
                                      payload)]

\* The reading of time.time() in the mouse engine's unit.
MouseClock(t) == t * (MouseTicksPerSecond \div TicksPerSecond)

\* Mutant: the mouse engine is called in Training as well.
MouseStep_any_mode(w, hand, click_ok) ==
    IF ~w.s.mouse_enabled THEN w
    ELSE LET r == process_hand(w.mc, hand.tips, MouseClock(w.t),
                               TRUE, click_ok, click_ok)
             w1 == [w EXCEPT !.mc = r.mc,
                             !.s.ev.mouse = [called |-> TRUE, left |-> r.left,
                                             right |-> r.right]]
         IN  IF r.raised THEN Raise(w1, "exception") ELSE w1

\* Step 6: the mouse engine, called in Predicting when the mouse flag is
\* set.  click_ok tells whether the engine's click calls return.
MouseStep(w, hand, click_ok) ==
    IF ~(w.s.mouse_enabled /\ ~w.s.training_mode) THEN w
    ELSE LET r == process_hand(w.mc, hand.tips, MouseClock(w.t),
                               TRUE, click_ok, click_ok)
             w1 == [w EXCEPT !.mc = r.mc,
                             !.s.ev.mouse = [called |-> TRUE, left |-> r.left,
                                             right |-> r.right]]
         IN  IF r.raised THEN Raise(w1, "exception") ELSE w1

\* Mutant: a failed read counts as a frame.
Frame_failed_read_counts(w, ret, hand, result, run_ok, click_ok) ==
    LET s0 == [w.s EXCEPT !.frame_count = (@ + 1) % w.n,
                          !.ev.frame = ret,
                          !.ev.training = w.s.training_mode]
        w0 == [w EXCEPT !.s = s0]
    IN  IF ~ret THEN [w EXCEPT !.s.frame_count = (@ + 1) % w.n]
        ELSE IF ~s0.training_mode /\ s0.frame_count % w.n # 0
        THEN [w0 EXCEPT !.s = Send(s0, s0.last_payload)]
        ELSE IF hand = None THEN NoHand([w0 EXCEPT !.s.ev.timestamps = @ + 1])
        ELSE LET h == hand[1]
                 w1 == MouseStep([w0 EXCEPT !.s.ev.hand = TRUE,
                                            !.s.ev.timestamps = @ + 1],
                                 h, click_ok)
             IN  IF w1.s.phase # "open" THEN w1
                 ELSE BuildAndSend(IF s0.training_mode
                                   THEN TrainingBranch(w1, h)
                                   ELSE PredictionBranch(w1, h, result, run_ok),
                                   h)

\* Steps 2 to 8 for one frame.  `hand` is None or the detected hand;
\* `result` is what predict returns if it is called.  ev.timestamps counts
\* the increments of timestamp_counter, one per call of the detector.
Frame(w, ret, hand, result, run_ok, click_ok) ==
    IF ~ret THEN w
    ELSE
    LET s0 == [w.s EXCEPT !.frame_count = (@ + 1) % w.n,
                          !.ev.frame = TRUE,
                          !.ev.training = w.s.training_mode]
        w0 == [w EXCEPT !.s = s0]
    IN  IF ~s0.training_mode /\ s0.frame_count % w.n # 0
        THEN [w0 EXCEPT !.s = Send(s0, s0.last_payload)]
        ELSE IF hand = None THEN NoHand([w0 EXCEPT !.s.ev.timestamps = @ + 1])
        ELSE LET h == hand[1]
                 w1 == MouseStep([w0 EXCEPT !.s.ev.hand = TRUE,
                                            !.s.ev.timestamps = @ + 1],
                                 h, click_ok)
             IN  IF w1.s.phase # "open" THEN w1
                 ELSE BuildAndSend(IF s0.training_mode
                                   THEN TrainingBranch(w1, h)
                                   ELSE PredictionBranch(w1, h, result, run_ok),
                                   h)

(***************************************************************************)
(* The session loop: connections open, run passes of the loop, and end.    *)
(***************************************************************************)
MaxTarget == 2
SessMaxSamples == 2
Targets == 0..MaxTarget
SessLabels == {"A", "B"}
Clients == {"c1"}

\* Hands the detector may report: the wrist in tenths of the frame and the
\* normalised feature vector, which does not depend on where the hand is.
\* Wrist distances are 0, 3 (the threshold), 4 and 5.  The fingers are
\* spread and the index tip is at the centre of the frame.
OpenTips == MouseHand(<<50, 50>>, <<40, 50>>, <<60, 50>>)

Hands ==
    {[id |-> "lms", wrist |-> <<0, 0>>, norm |-> 0, tips |-> OpenTips],
     [id |-> "lms", wrist |-> <<3, 0>>, norm |-> 0, tips |-> OpenTips],
     [id |-> "lms", wrist |-> <<3, 4>>, norm |-> 0, tips |-> OpenTips]}

\* What ws.receive_text() yields within its timeout.
Rx(command, label, target) ==
    [command |-> command, label |-> label, target_frames |-> target]

Received ==
    {Rx(c, "", 0) : c \in {"none", "non_json", "disconnect", "not_an_object",
                            "stop_training", "save_model"}}
    \cup {Rx("start_training", l, t) : l \in SessLabels, t \in Targets}

\* gesture_configs.json as found at start-up by the session runs: one
\* trained gesture has an action, the other has none.
SessionGestureMap == [g \in {"A", "Unknown"} |->
                        IF g = "Unknown" THEN "Volume Mute" ELSE "Volume Up"]

\* The process as started with frame-skip factor n, before any connection.
SessionStart(n) ==
    /\ gesture_model = NewClassifier
    /\ desktop_ctrl = NewController(SessionGestureMap)
    /\ now = StartTime
    /\ pred = NoPredict
    /\ disp = NoDispatch
    /\ last_success = <<>>
    /\ fitted = FALSE
    /\ snapshot = None
    /\ load = NoLoad
    /\ mouse_ctrl = NewMouse
    /\ mouse = NoMouse
    /\ normalized = NoNormalize
    /\ process_every_n = n
    /\ workers = NoWorkers
    /\ config_store = NoConfigStore
    /\ requests = NoRequests
    /\ jarvis_service = None
    /\ poller = NoPoller
    /\ conn = [c \in Clients |-> NewSession]
    /\ active_websockets = {}

SessionInit == SessionStart(PROCESS_EVERY_N)

\* The state a pass works on: the connection's locals, the shared
\* classifier and dispatcher, the clock, and the locals of one pass.
World(c) ==
    [s |-> conn[c], gm |-> gesture_model, dc |-> desktop_ctrl,
     fitted |-> fitted, t |-> now, file |-> snapshot, mc |-> mouse_ctrl,
     n |-> process_every_n,
     status |-> "active", gesture_label |-> "None", confidence |-> 0]

\* Mutant: the mouse flag is one variable of the module, not a local of
\* the connection.
Commit_global_mouse_flag(c, w, pc) ==
    /\ conn' = [d \in DOMAIN conn |->
                   IF d = c
                   THEN IF w.s.phase = "open" THEN [w.s EXCEPT !.pc = pc] ELSE w.s
                   ELSE [conn[d] EXCEPT !.mouse_enabled = w.s.mouse_enabled]]
    /\ active_websockets' = IF w.s.phase = "closed"
                            THEN active_websockets \ {c}
                            ELSE active_websockets
    /\ gesture_model' = w.gm
    /\ desktop_ctrl' = w.dc
    /\ fitted' = w.fitted
    /\ snapshot' = w.file
    /\ mouse_ctrl' = w.mc
    /\ UNCHANGED <<load, now, pred, disp, last_success, mouse, normalized, process_every_n, workers, config_store, requests, jarvis_service, poller>>

Commit(c, w, pc) ==
    /\ conn' = [conn EXCEPT ![c] = IF w.s.phase = "open"
                                   THEN [w.s EXCEPT !.pc = pc] ELSE w.s]
    /\ active_websockets' = IF w.s.phase = "closed"
                            THEN active_websockets \ {c}
                            ELSE active_websockets
    /\ gesture_model' = w.gm
    /\ desktop_ctrl' = w.dc
    /\ fitted' = w.fitted
    /\ snapshot' = w.file
    /\ mouse_ctrl' = w.mc
    /\ UNCHANGED <<load, now, pred, disp, last_success, mouse, normalized, process_every_n, workers, config_store, requests, jarvis_service, poller>>

\* websocket_endpoint up to the loop: accept, register, create the
\* landmarker, open the camera.
Connect(c, camera_ok) ==
    /\ conn[c].phase = "idle"
    /\ IF camera_ok
       THEN /\ conn' = [conn EXCEPT ![c] = [@ EXCEPT !.phase = "open",
                                                     !.cap = "open",
                                                     !.landmarker = "open"]]
            /\ active_websockets' = active_websockets \cup {c}
       ELSE /\ conn' = [conn EXCEPT ![c] =
                            [Send(@, ErrorMsg("Cannot open camera index 0"))
                             EXCEPT !.phase = "closed", !.exit = "camera",
                                    !.landmarker = "open"]]
            /\ active_websockets' = active_websockets \ {c}
    /\ UNCHANGED <<mouse_ctrl, mouse, snapshot, load, gesture_model, desktop_ctrl, now, pred, disp, last_success, fitted, normalized, process_every_n, workers, config_store, requests, jarvis_service, poller>>

\* Step 1 of a pass of connection c: rx is what receive_text yields.
Receive(c, rx) ==
    /\ conn[c].phase = "open"
    /\ conn[c].pc = "receive"
    /\ \E w \in {Intake([World(c) EXCEPT
                              !.s.sent = <<>>, !.s.ev = NoEvent,
                              !.s.added = IF conn[c].training_mode THEN @ ELSE 0],
                        rx)} :
          Commit(c, w, "frame")

\* Steps 2 to 9 of a pass of connection c: ret is whether cap.read gave a
\* frame, hand what the detector reports, run_ok what the executor answers
\* if it is called, click_ok whether the click calls of the mouse engine
\* return.
Process(c, ret, hand, run_ok, click_ok) ==
    /\ conn[c].phase = "open"
    /\ conn[c].pc = "frame"
    /\ \E result \in IF ret /\ hand # None /\ ~conn[c].training_mode
                     THEN predict(gesture_model, hand[1].norm)
                     ELSE {NoPredict.result} :
       \E w \in {Frame(World(c), ret, hand, result, run_ok, click_ok)} :
          /\ Len(w.gm.X_data) <= SessMaxSamples
          /\ Commit(c, [w EXCEPT !.s.added = conn[c].added + Len(w.gm.X_data)
                                                - Len(gesture_model.X_data)],
                    "receive")

\* A pass reads only the inputs it needs: no hand is looked for in a frame
\* that was not read, and the executor answers only when a gesture is
\* predicted.
Pass(c) ==
    \/ Process(c, FALSE, None, FALSE, TRUE)
    \/ Process(c, TRUE, None, FALSE, TRUE)
    \/ \E h \in Hands : Process(c, TRUE, Some(h), FALSE, TRUE)
    \/ \E h \in Hands : ~conn[c].training_mode
                         /\ Process(c, TRUE, Some(h), TRUE, TRUE)

Next ==
    \/ \E c \in Clients, camera_ok \in BOOLEAN : Connect(c, camera_ok)
    \/ \E c \in Clients, rx \in Received : Receive(c, rx)
    \/ \E c \in Clients : Pass(c)

Init == SessionInit

Spec == Init /\ [][Next]_vars

(***************************************************************************)
(* Two connections at once.  Each runs its own loop; the passes of the two *)
(* interleave at the loop's await points (between command intake and frame *)
(* acquisition, and between passes).                                       *)
(***************************************************************************)
Pair == {"c1", "c2"}

\* The camera the two sessions read shows one hand, which pinches index
\* tip and thumb right of the centre.
PairHands ==
    {[id |-> "lms", wrist |-> <<0, 0>>, norm |-> 0,
      tips |-> MouseHand(<<51, 50>>, <<54, 50>>, <<80, 50>>)]}

\* Each client trains a label of its own.
PairLabel(c) == IF c = "c1" THEN "A" ELSE "B"

\* Every training run of the pair asks for two frames.
PairTargets == {2}

PairReceived(c) ==
    {Rx(cmd, "", 0) : cmd \in {"none", "toggle_mouse", "stop_training"}}
    \cup {Rx("start_training", PairLabel(c), t) : t \in PairTargets}

PairInit ==
    /\ InitShared
    /\ conn = [c \in Pair |-> NewSession]
    /\ active_websockets = {}

PairNext ==
    \/ \E c \in Pair : Connect(c, TRUE)
    \/ \E c \in Pair : \E rx \in PairReceived(c) : Receive(c, rx)
    \/ \E c \in Pair, h \in PairHands : Process(c, TRUE, Some(h), TRUE, TRUE)

SpecPair == PairInit /\ [][PairNext]_vars

(***************************************************************************)
(* Two connections of which the first abandons training runs (it restarts  *)
(* with another label, or disconnects) while the second trains or stops.   *)
(***************************************************************************)
AbandonReceived(c) ==
    IF c = "c1"
    THEN {Rx("none", "", 0), Rx("disconnect", "", 0),
          Rx("start_training", "A", 2), Rx("start_training", "C", 2)}
    ELSE {Rx("none", "", 0), Rx("stop_training", "", 0),
          Rx("start_training", "B", 1)}

AbandonNext ==
    \/ \E c \in Pair : Connect(c, TRUE)
    \/ \E c \in Pair : \E rx \in AbandonReceived(c) : Receive(c, rx)
    \/ \E c \in Pair, h \in PairHands : Process(c, TRUE, Some(h), TRUE, TRUE)

SpecAbandon == PairInit /\ [][AbandonNext]_vars

(***************************************************************************)
(* One connection whose client switches mouse control on and off between   *)
(* and during training runs.                                               *)
(***************************************************************************)
FlagReceived ==
    {Rx(cmd, "", 0) : cmd \in {"none", "toggle_mouse", "stop_training"}}
    \cup {Rx("start_training", "A", t) : t \in PairTargets}

FlagNext ==
    \/ \E c \in Clients : Connect(c, TRUE)
    \/ \E c \in Clients, rx \in FlagReceived : Receive(c, rx)
    \/ \E c \in Clients : Process(c, FALSE, None, FALSE, TRUE)
    \/ \E c \in Clients : Process(c, TRUE, None, FALSE, TRUE)
    \/ \E c \in Clients, h \in PairHands : Process(c, TRUE, Some(h), TRUE, TRUE)

SpecFlag == SessionInit /\ [][FlagNext]_vars

(***************************************************************************)
(* One connection of a process whose frame-skip factor is tuned to skip    *)
(* frames in Predicting.                                                   *)
(***************************************************************************)
SkipFactors == {2}

SkipInit == \E n \in SkipFactors : SessionStart(n)

SpecSkip == SkipInit /\ [][Next]_vars

\* The same process with the client of SpecFlag.
SpecSkipFlag == SkipInit /\ [][FlagNext]_vars

(***************************************************************************)
(* Properties of the session loop (checked under Spec)                     *)
(***************************************************************************)
\* The last n labels of the classifier's buffer are all l.
LastLabels(n, l) ==
    LET y == gesture_model.y_data
    IN  /\ Len(y) >= n
        /\ \A i \in (Len(y) - n + 1)..Len(y) : y[i] = l

\* C1: whenever a pass in Training accepts the frame that brings the
\* captured count to a target of at least 1, that pass sends exactly two
\* messages: the tracking payload with frames_captured = target_frames, then
\* {status: training_complete}.
C1_TwoMessagesAtTarget ==
    \A c \in Clients :
        LET s == conn[c]
        IN  (s.ev.accepted /\ s.ev.reached /\ s.ev.target >= 1) =>
                /\ Len(s.sent) = 2
                /\ s.sent[1].status = "tracking"
                /\ s.sent[1].frames_captured = Some(s.ev.target)
                /\ s.sent[1].target_frames = Some(s.ev.target)
                /\ s.sent[2] = StatusMsg("training_complete")

\* C2: for a target T >= 1 the captured count never exceeds T; while the run
\* lasts the samples added since start_training are as many as the count,
\* fewer than T and all under the training label; the pass that accepts the
\* T-th frame has added exactly T such samples and leaves the session in
\* Predicting; a frame processed in Predicting adds no sample and does not
\* increment the count.
C2_Run(c) ==
    LET s == conn[c]
    IN  /\ (s.phase = "open" /\ s.target_frames >= 1) =>
               s.frames_captured <= s.target_frames
        /\ (s.phase = "open" /\ s.training_mode /\ s.target_frames >= 1) =>
               /\ s.added = s.frames_captured
               /\ s.frames_captured < s.target_frames
               /\ LastLabels(s.added, s.training_label)
        /\ (s.ev.accepted /\ s.ev.target >= 1 /\ s.added >= s.ev.target) =>
               /\ s.added = s.ev.target
               /\ s.ev.reached
               /\ ~s.training_mode
               /\ LastLabels(s.added, s.ev.label)

C2_AfterCompletion(c) ==
    (/\ conn[c].phase = "open" /\ conn[c].pc = "frame"
     /\ ~conn[c].training_mode /\ conn'[c] # conn[c]) =>
        /\ gesture_model'.X_data = gesture_model.X_data
        /\ gesture_model'.y_data = gesture_model.y_data
        /\ conn'[c].frames_captured <= conn[c].frames_captured

C2_ExactlyTargetSamples ==
    [][\A c \in Clients : C2_Run(c)' /\ C2_AfterCompletion(c)]_vars

C2_Witness ==
    \E c \in Clients :
        /\ conn[c].phase = "open"
        /\ conn[c].ev.accepted /\ conn[c].ev.reached
        /\ conn[c].ev.target = 2 /\ conn[c].added = 2

\* C6: in Training a frame whose wrist is farther than the velocity
\* threshold from the previous wrist position is rejected: the buffer, the
\* captured count and the mode are unchanged and the payload of the pass has
\* status "moving_too_fast"; at a distance equal to the threshold the frame
\* is accepted and its sample stored.
C6_Step(c) ==
    LET s == conn[c]
        e == conn'[c].ev
    IN  (/\ s.phase = "open" /\ s.pc = "frame" /\ s.training_mode
         /\ conn'[c] # s /\ e.frame /\ e.hand
         /\ s.prev_wrist_coords # None) =>
            LET d2 == SqDist(e.wrist, s.prev_wrist_coords)
                t2 == QC_VELOCITY_THRESHOLD * QC_VELOCITY_THRESHOLD
            IN  /\ d2 > t2 =>
                      /\ e.rejected /\ ~e.accepted
                      /\ gesture_model' = gesture_model
                      /\ conn'[c].phase = "open"
                      /\ conn'[c].training_mode
                      /\ conn'[c].frames_captured = s.frames_captured
                      /\ Len(conn'[c].sent) >= 1
                      /\ conn'[c].sent[Len(conn'[c].sent)].status = "moving_too_fast"
                /\ d2 = t2 =>
                      /\ e.accepted /\ ~e.rejected
                      /\ Len(gesture_model'.X_data) = Len(gesture_model.X_data) + 1

C6_FastFrameRejected == [][\A c \in Clients : C6_Step(c)]_vars

C6_Witness ==
    \E c \in Clients :
        /\ conn[c].ev.rejected
        /\ conn[c].training_mode
        /\ conn[c].sent[Len(conn[c].sent)].status = "moving_too_fast"

\* C7: in Training the first frame with a hand after start_training, or
\* after a pass that found no hand, is accepted and never rejected as
\* moving too fast.
C7_FirstFrameNeverRejected ==
    \A c \in Clients :
        LET e == conn[c].ev
        IN  (e.frame /\ e.hand /\ e.training /\ e.first) =>
                (e.accepted /\ ~e.rejected)

\* A first frame after the hand was lost in a run that had already
\* captured a frame.
C7_Witness ==
    \E c \in Clients :
        /\ conn[c].ev.first /\ conn[c].ev.accepted
        /\ conn[c].ev.cmd # "start_training"
        /\ conn[c].added = 2

(***************************************************************************)
(* Properties of the dispatcher (checked under SpecDispatch)               *)
(***************************************************************************)
\* C3: once the executor has succeeded for a mapped gesture at time t, a
\* dispatch of it at t' with t' - t < cooldown neither invokes the executor
\* nor succeeds, and a dispatch with t' - t >= cooldown invokes it.
C3_Debounce ==
    (disp.called /\ disp.mapped /\ disp.prev_success # None) =>
        IF disp.t - disp.prev_success[1] < cooldown
        THEN ~disp.invoked /\ ~disp.success
        ELSE disp.invoked

C3_Witness ==
    /\ disp.called /\ disp.prev_success # None
    /\ disp.t - disp.prev_success[1] = cooldown
    /\ disp.invoked /\ disp.success

\* C4: when the executor fails the dispatcher answers failure and changes
\* no timestamp; the next dispatch of that gesture invokes the executor
\* again if the cooldown since its last success has elapsed.
C4_Step ==
    (disp' # disp) =>
        /\ (disp'.invoked /\ ~disp'.run_ok) =>
              /\ ~disp'.success
              /\ desktop_ctrl'.last_action_time = desktop_ctrl.last_action_time
        /\ (/\ disp.invoked /\ ~disp.run_ok
            /\ disp'.gesture = disp.gesture /\ disp'.mapped
            /\ \/ disp'.prev_success = None
               \/ disp'.t - disp'.prev_success[1] >= cooldown) =>
              disp'.invoked

C4_FailureKeepsTimestamp == [][C4_Step]_vars

C4_Witness ==
    /\ disp.invoked /\ ~disp.run_ok /\ ~disp.success
    /\ disp.prev_success # None

\* C5: for the labels "Unknown", "None" and null, and for a label with no
\* entry in the gesture map, the executor is not invoked, the dispatch
\* answers failure and no timestamp changes.
C5_Step ==
    (/\ disp' # disp
     /\ \/ disp'.gesture \in {"Unknown", "None", NoneLabel}
        \/ disp'.gesture \notin DOMAIN desktop_ctrl.gesture_map) =>
        /\ ~disp'.invoked
        /\ ~disp'.success
        /\ desktop_ctrl'.last_action_time = desktop_ctrl.last_action_time

C5_SentinelsNeverExecuted == [][C5_Step]_vars

\* The sentinel label has an entry in the map and is still refused.
C5_Witness ==
    /\ disp.called /\ disp.gesture = "Unknown" /\ disp.mapped
    /\ ~disp.invoked /\ ~disp.success

(***************************************************************************)
(* Properties of the classifier (checked under SpecClassifier)             *)
(***************************************************************************)
UnknownResult == [label |-> "Unknown", confidence |-> 0]

\* C8: predict on a classifier for which no train() has fitted a model
\* returns ("Unknown", 0.0), also when samples have been added.
C8_UntrainedIsUnknown ==
    (pred.called /\ ~fitted) => pred.result = UnknownResult

C8_Witness ==
    /\ pred.called /\ ~fitted
    /\ Len(gesture_model.X_data) > 0
    /\ pred.result = UnknownResult

\* The distance from the last query to the nearest fitted sample.
NearestDistance ==
    LET X == gesture_model.model[1].X
    IN  CHOOSE d \in {Abs(pred.query - X[i]) : i \in 1..Len(X)} :
            \A i \in 1..Len(X) : d <= Abs(pred.query - X[i])

FittedLabels ==
    LET y == gesture_model.model[1].y
    IN  {y[i] : i \in 1..Len(y)}

Clamp01(x) == IF x < 0 THEN 0 ELSE IF x > Scale THEN Scale ELSE x

\* C9 as stated: with nearest distance d, d > 0.6 gives ("Unknown",
\* round(d, 4)); d <= 0.6 gives a label other than "Unknown" with
\* confidence clamp(1 - d, 0, 1).
C9_AsStated ==
    (pred.called /\ gesture_model.is_trained) =>
        IF NearestDistance > UNKNOWN_THRESHOLD
        THEN pred.result = [label |-> "Unknown",
                            confidence |-> round4(NearestDistance)]
        ELSE /\ pred.result.label # "Unknown"
             /\ pred.result.confidence = Clamp01(Scale - NearestDistance)

\* C9 as amended: with nearest distance d, d > 0.6 gives ("Unknown",
\* round(d, 4)); d <= 0.6 gives the label of a fitted sample with
\* confidence round(clamp(1 - d, 0, 1), 4).
C9_ThresholdAndConfidence ==
    (pred.called /\ gesture_model.is_trained) =>
        IF NearestDistance > UNKNOWN_THRESHOLD
        THEN pred.result = [label |-> "Unknown",
                            confidence |-> round4(NearestDistance)]
        ELSE /\ pred.result.label \in FittedLabels
             /\ pred.result.confidence = round4(Clamp01(Scale - NearestDistance))

\* A query exactly at the threshold is recognised.
C9_Witness ==
    /\ pred.called /\ gesture_model.is_trained
    /\ NearestDistance = UNKNOWN_THRESHOLD
    /\ pred.result.label = "A"

\* C10: after n >= 1 add_sample(L, v) on an empty buffer and train(),
\* predict(v) returns (L, 1.0).
SameSamples ==
    /\ Len(gesture_model.X_data) >= 1
    /\ gesture_model.is_trained
    /\ gesture_model.model[1].X = gesture_model.X_data
    /\ \A i \in 1..Len(gesture_model.X_data) :
          /\ gesture_model.X_data[i] = pred.query
          /\ gesture_model.y_data[i] = gesture_model.y_data[1]

C10_RoundTrip ==
    (pred.called /\ SameSamples) =>
        pred.result = [label |-> gesture_model.y_data[1], confidence |-> Scale]

C10_Witness ==
    /\ pred.called /\ SameSamples
    /\ Len(gesture_model.X_data) >= 2
    /\ pred.result = [label |-> "A", confidence |-> Scale]

\* C11: train() on a non-empty buffer fits the model on every sample of the
\* buffer with k = min(configured k, number of samples) and sets the trained
\* flag; train() on an empty buffer changes neither the model nor the flag.
C11_Step ==
    (/\ gesture_model'.X_data = gesture_model.X_data
     /\ gesture_model'.y_data = gesture_model.y_data
     /\ pred' = NoPredict) =>
        LET n == Len(gesture_model.X_data)
            k == IF n < gesture_model.n_neighbors
                 THEN n ELSE gesture_model.n_neighbors
        IN  IF n = 0
            THEN /\ gesture_model'.model = gesture_model.model
                 /\ gesture_model'.is_trained = gesture_model.is_trained
            ELSE /\ gesture_model'.is_trained
                 /\ gesture_model'.model # None
                 /\ gesture_model'.model[1].n_neighbors = k
                 /\ gesture_model'.model[1].X = gesture_model.X_data
                 /\ gesture_model'.model[1].y = gesture_model.y_data

C11_TrainFitsWholeBuffer == [][C11_Step]_vars

\* A model fitted with the configured k on a buffer that has outgrown it and
\* holds a class with fewer than k members.
C11_Witness ==
    /\ gesture_model.is_trained
    /\ gesture_model.model[1].X = gesture_model.X_data
    /\ Len(gesture_model.X_data) = 3
    /\ gesture_model.model[1].n_neighbors = 2
    /\ Cardinality({i \in 1..3 : gesture_model.y_data[i] = "A"}) = 1

(***************************************************************************)
(* Properties of the snapshot file (checked under SpecPersist)             *)
(***************************************************************************)
\* C12: load_model never raises; when the file is missing or its payload is
\* corrupt it returns False, and a classifier that was as constructed before
\* the call is empty and untrained after it.
C12_LoadNeverRaises ==
    load.called =>
        /\ ~load.raised
        /\ (load.fresh /\ ~load.ok) => load.blank_after

(***************************************************************************)
(* Properties of the mouse engine (checked under SpecMouse)                *)
(***************************************************************************)
\* The pinches of the last invocation and the time since each button's last
\* click, measured on the controller as it was before the call.
NearLeft == Pinched(mouse.hand.index, mouse.hand.thumb)
NearRight == Pinched(mouse.hand.middle, mouse.hand.thumb)
SinceLeft == mouse.t - mouse.before.last_left_click
SinceRight == mouse.t - mouse.before.last_right_click

C14_ClickWhenCooldownElapsed ==
    (mouse.called /\ ~mouse.raised) =>
        /\ mouse.left <=> (NearLeft /\ SinceLeft >= click_cooldown)
        /\ mouse.right <=> (NearRight /\ SinceRight >= click_cooldown)
        /\ mouse.left => mouse_ctrl.last_left_click = mouse.t
        /\ mouse.right => mouse_ctrl.last_right_click = mouse.t

(***************************************************************************)
(* Properties of two connections at once (checked under SpecPair)          *)
(***************************************************************************)
\* C15: with two sessions open, a mouse-engine invocation made by one
\* session changes neither the previous cursor position nor the left or
\* right click timestamp that the other session's invocations use.
C15_Step ==
    \A c \in Pair, d \in Pair :
        (/\ c # d
         /\ conn[c].phase = "open" /\ conn[d].phase = "open"
         /\ conn[c].pc = "frame" /\ conn'[c] # conn[c]
         /\ conn'[c].ev.mouse.called) =>
            /\ mouse_ctrl'.prev = mouse_ctrl.prev
            /\ mouse_ctrl'.last_left_click = mouse_ctrl.last_left_click
            /\ mouse_ctrl'.last_right_click = mouse_ctrl.last_right_click

C15_MouseStatePerSession == [][C15_Step]_vars

(***************************************************************************)
(* Properties of how the session loop ends and what a pass leaves alone    *)
(* (checked under Spec unless said otherwise)                              *)
(***************************************************************************)
\* C16: the session loop ends only because the camera could not be opened
\* or because the client disconnected; a failure inside a pass (a command
\* that is JSON but not an object, a click that raises, building the
\* payload on the pass where training completes) never ends it.
C16_LoopEndsOnlyOnCameraOrDisconnect ==
    \A c \in Clients :
        conn[c].phase = "closed" => conn[c].exit \in {"camera", "disconnect"}

\* The locals of a session that a command or a frame can change.
SessionState(s) ==
    <<s.training_mode, s.training_label, s.target_frames, s.frames_captured,
      s.prev_wrist_coords, s.mouse_enabled>>

\* C17: a received text that is not JSON changes none of the session's mode,
\* label, target, captured count, previous wrist position and mouse flag,
\* sends nothing, and the same pass goes on to acquire its frame.
C17_Step ==
    \A c \in Clients :
        (/\ conn[c].phase = "open" /\ conn[c].pc = "receive"
         /\ conn'[c] # conn[c]
         /\ conn'[c].ev.cmd = "non_json") =>
            /\ SessionState(conn'[c]) = SessionState(conn[c])
            /\ conn'[c].sent = <<>>
            /\ conn'[c].phase = "open"
            /\ conn'[c].cap = "open" /\ conn'[c].landmarker = "open"
            /\ conn'[c].pc = "frame"
            /\ gesture_model' = gesture_model
            /\ c \in active_websockets'

C17_NonJsonIgnored == [][C17_Step]_vars

C17_Witness ==
    \E c \in Clients :
        /\ conn[c].phase = "open" /\ conn[c].pc = "frame"
        /\ conn[c].ev.cmd = "non_json"
        /\ conn[c].training_mode
        /\ conn[c].frames_captured > 0
        /\ conn[c].prev_wrist_coords # None
        /\ conn[c].sent = <<>>

\* C18: when a session loop that opened its camera ends, by a disconnect or
\* by an exception, in Predicting or in Training, the camera is released,
\* the landmarker is closed, the connection is no longer among the
\* broadcast targets, and nothing more is sent for that session.
C18_Released ==
    \A c \in Clients :
        (conn[c].phase = "closed" /\ conn[c].exit \in {"disconnect", "exception"}) =>
            /\ conn[c].cap = "released"
            /\ conn[c].landmarker = "closed"
            /\ c \notin active_websockets

C18_Step ==
    \A c \in Clients : conn[c].phase = "closed" => conn'[c] = conn[c]

C18_EndReleasesEverything == []C18_Released /\ [][C18_Step]_vars

C18_Witness ==
    \E c \in Clients :
        /\ conn[c].phase = "closed" /\ conn[c].exit = "exception"
        /\ conn[c].ev.frame /\ conn[c].ev.training
        /\ conn[c].cap = "released" /\ conn[c].landmarker = "closed"
        /\ c \notin active_websockets

\* C19 (under SpecPair): with two sessions open, a command that one session
\* processes and a frame that it processes never change the other session's
\* mode, training label, target, captured count, previous wrist position
\* or mouse flag.
C19_Step ==
    \A c \in Pair, d \in Pair :
        (c # d /\ conn'[c] # conn[c]) =>
            SessionState(conn'[d]) = SessionState(conn[d])

C19_SessionsIsolated == [][C19_Step]_vars

C19_Witness ==
    /\ conn["c1"].phase = "open" /\ conn["c2"].phase = "open"
    /\ conn["c1"].training_mode
    /\ conn["c1"].frames_captured > 0
    /\ conn["c1"].prev_wrist_coords # None
    /\ conn["c1"].mouse_enabled
    /\ conn["c2"].pc = "frame"
    /\ conn["c2"].ev.cmd = "toggle_mouse"
    /\ ~conn["c2"].mouse_enabled
    /\ ~conn["c2"].training_mode

\* C20: in every pass that acquires a frame and processes no client
\* command the session sends exactly one message, except in the pass where
\* the captured count reaches a target of at least 1, in which it sends
\* exactly two.
C20_OneMessagePerPass ==
    \A c \in Clients :
        (/\ conn[c].phase \in {"open", "closed"}
         /\ conn[c].pc = "receive"
         /\ conn[c].ev.frame
         /\ conn[c].ev.cmd = "none") =>
            Len(conn[c].sent) =
                IF conn[c].ev.reached /\ conn[c].ev.target >= 1 THEN 2 ELSE 1

(***************************************************************************)
(* Properties of the landmark normalizer (checked under SpecNormalize)     *)
(***************************************************************************)
\* The places of landmark i (counted from 0) in the flattened vector.
Landmark(vector, i) == <<vector[3 * i + 1], vector[3 * i + 2], vector[3 * i + 3]>>

\* The point p, given in 1/Scale, has distance 1 from the origin.  The
\* squares are taken in hundredths, which keeps them within 32 bits.
UnitLength(p) ==
    /\ \A k \in 1..3 : p[k] % LandmarkUnit = 0
    /\ SqNorm3(<<p[1] \div LandmarkUnit, p[2] \div LandmarkUnit,
                 p[3] \div LandmarkUnit>>)
           = (Scale \div LandmarkUnit) * (Scale \div LandmarkUnit)

\* C21: for a 21-point input the normalizer returns 63 numbers of which the
\* first three are 0; if landmark 9 differs from landmark 0 then landmark 9
\* of the output has distance 1 from the origin; if landmark 9 equals
\* landmark 0 the translated coordinates come back unscaled and nothing is
\* raised.
C21_Normalized ==
    normalized.called =>
        LET lms == normalized.landmarks
            vector == normalized.result.vector
        IN  /\ ~normalized.result.raised
            /\ Len(vector) = 63
            /\ Landmark(vector, 0) = <<0, 0, 0>>
            /\ lms[10] # lms[1] => UnitLength(Landmark(vector, 9))
            /\ lms[10] = lms[1] =>
                   \A i \in 0..(NumLandmarks - 1) :
                       Landmark(vector, i) =
                           <<(lms[i + 1][1] - lms[1][1]) * LandmarkUnit,
                             (lms[i + 1][2] - lms[1][2]) * LandmarkUnit,
                             (lms[i + 1][3] - lms[1][3]) * LandmarkUnit>>

C21_Witness ==
    /\ normalized.called
    /\ normalized.landmarks[10] = normalized.landmarks[1]
    /\ normalized.landmarks[13] # normalized.landmarks[1]
    /\ Landmark(normalized.result.vector, 12) # <<0, 0, 0>>
    /\ Len(normalized.result.vector) = 63

(***************************************************************************)
(* Properties of the commands (checked under Spec)                         *)
(***************************************************************************)
\* C22: processing stop_training, in either mode, leaves the session in
\* Predicting, retrains the classifier and then saves it (the file holds
\* the retrained classifier), and sends {status: training_complete}, which
\* stays ahead of whatever the frame of the same pass sends; the captured
\* count is not changed by the command.
C22_Step ==
    \A c \in Clients :
        /\ (/\ conn[c].phase = "open" /\ conn[c].pc = "receive"
            /\ conn'[c] # conn[c]
            /\ conn'[c].ev.cmd = "stop_training") =>
               /\ conn'[c].phase = "open" /\ conn'[c].pc = "frame"
               /\ ~conn'[c].training_mode
               /\ conn'[c].frames_captured = conn[c].frames_captured
               /\ gesture_model' = train(gesture_model)
               /\ snapshot' = save_model(train(gesture_model))
               /\ conn'[c].sent = <<StatusMsg("training_complete")>>
        /\ (/\ conn[c].phase = "open" /\ conn[c].pc = "frame"
            /\ conn[c].ev.cmd = "stop_training") =>
               /\ Len(conn'[c].sent) >= 1
               /\ conn'[c].sent[1] = StatusMsg("training_complete")
               /\ (conn'[c].phase = "open" /\ conn'[c].ev.frame) =>
                      /\ Len(conn'[c].sent) >= 2
                      /\ "gesture" \in DOMAIN conn'[c].sent[2]

C22_StopTraining == [][C22_Step]_vars

\* A training run stopped by the command after one captured sample: the
\* sample is in the fitted model and in the file, and the frame of the same
\* pass has sent its payload after the status message.
C22_Witness ==
    \E c \in Clients :
        /\ conn[c].phase = "open" /\ conn[c].pc = "receive"
        /\ conn[c].ev.cmd = "stop_training" /\ conn[c].ev.frame
        /\ conn[c].frames_captured > 0
        /\ ~conn[c].training_mode
        /\ gesture_model.is_trained
        /\ snapshot = save_model(gesture_model)
        /\ Len(conn[c].sent) = 2
        /\ conn[c].sent[1] = StatusMsg("training_complete")

\* C23: processing start_training, from Predicting or from Training, puts
\* the session in Training with the label and the target of the command,
\* sets the captured count to 0 and clears the previous wrist position; it
\* removes no sample from the classifier's buffer and does not retrain.
C23_Step ==
    \A c \in Clients :
        (/\ conn[c].phase = "open" /\ conn[c].pc = "receive"
         /\ conn'[c] # conn[c]
         /\ conn'[c].ev.cmd = "start_training") =>
            /\ conn'[c].phase = "open" /\ conn'[c].pc = "frame"
            /\ conn'[c].training_mode
            /\ conn'[c].training_label = conn'[c].ev.rx.label
            /\ conn'[c].target_frames = conn'[c].ev.rx.target_frames
            /\ conn'[c].frames_captured = 0
            /\ conn'[c].prev_wrist_coords = None
            /\ gesture_model' = gesture_model
            /\ snapshot' = snapshot
            /\ conn'[c].sent = <<>>

C23_StartTraining == [][C23_Step]_vars

\* start_training received in the middle of a training run: the buffer
\* holds a sample that the fitted model does not, and still does.
C23_Witness ==
    \E c \in Clients :
        /\ conn[c].phase = "open" /\ conn[c].pc = "frame"
        /\ conn[c].ev.cmd = "start_training"
        /\ conn[c].training_mode
        /\ conn[c].frames_captured = 0
        /\ gesture_model.model # None
        /\ Len(gesture_model.model[1].X) < Len(gesture_model.X_data)

(***************************************************************************)
(* Properties of the classifier's buffer and fitted model (checked under   *)
(* SpecClassifier)                                                         *)
(***************************************************************************)
\* The classifier as the last train() left it: the buffer holds what the
\* fitted model holds, and nothing if no model was fitted.
AsFitted(gm) ==
    IF gm.model = None
    THEN [gm EXCEPT !.X_data = <<>>, !.y_data = <<>>]
    ELSE [gm EXCEPT !.X_data = gm.model[1].X, !.y_data = gm.model[1].y]

\* C24: what predict returns depends only on the model fitted by the last
\* train() that fitted one: an add_sample call changes the result of no
\* predict call, and every result is one the classifier would return with
\* the buffer it had at that train().
C24_Step ==
    Len(gesture_model'.X_data) = Len(gesture_model.X_data) + 1 =>
        \A v \in Vecs : predict(gesture_model', v) = predict(gesture_model, v)

C24_Returned ==
    pred.called => pred.result \in predict(AsFitted(gesture_model), pred.query)

C24_PredictUsesFittedModel == []C24_Returned /\ [][C24_Step]_vars

\* A trained classifier answers Unknown for a vector that has been added to
\* the buffer since the last train().
C24_Witness ==
    /\ pred.called
    /\ gesture_model.is_trained
    /\ Len(gesture_model.model[1].X) < Len(gesture_model.X_data)
    /\ pred.result.label = "Unknown"
    /\ \E i \in 1..Len(gesture_model.X_data) :
           /\ gesture_model.X_data[i] = pred.query
           /\ gesture_model.y_data[i] # "Unknown"

\* a is a prefix of b.
IsPrefix(a, b) == Len(a) <= Len(b) /\ \A i \in 1..Len(a) : a[i] = b[i]

\* C25 (under SpecPair): whatever the sessions make the classifier do
\* (add_sample, train, predict, save), the buffer never loses or reorders a
\* sample: the vector list and the label list have the same length, and
\* the buffer before a step is a prefix of the buffer after it, so its
\* length never decreases and every earlier buffer is a prefix of every
\* later one.
C25_SameLength == Len(gesture_model.X_data) = Len(gesture_model.y_data)

C25_Step ==
    /\ IsPrefix(gesture_model.X_data, gesture_model'.X_data)
    /\ IsPrefix(gesture_model.y_data, gesture_model'.y_data)

C25_BufferOnlyGrows == []C25_SameLength /\ [][C25_Step]_vars

\* Samples of both sessions are in the buffer, one after the other, and the
\* classifier has been trained and saved since.
C25_Witness ==
    /\ Len(gesture_model.y_data) >= 2
    /\ gesture_model.y_data[1] # gesture_model.y_data[2]
    /\ gesture_model.is_trained
    /\ snapshot = save_model(gesture_model)
    /\ \E c \in Pair : conn[c].ev.frame /\ conn[c].ev.hand /\ ~conn[c].ev.training

(***************************************************************************)
(* Properties of the mouse flag (checked under SpecFlag)                   *)
(***************************************************************************)
\* C26: a pass calls the mouse engine exactly when it detected a hand, the
\* session was in Predicting when it processed the frame, and the session's
\* mouse flag is set; the flag is set when the session starts, every
\* toggle_mouse command flips it and nothing else changes it, so two
\* toggles restore it.
C26_Called ==
    \A c \in Clients :
        /\ conn[c].phase = "idle" => conn[c].mouse_enabled
        /\ conn[c].phase = "open" =>
               (conn[c].ev.mouse.called <=>
                    (/\ conn[c].ev.hand
                     /\ ~conn[c].ev.training
                     /\ conn[c].mouse_enabled))

C26_Step ==
    \A c \in Clients :
        (conn[c].phase \in {"idle", "open"} /\ conn'[c].phase = "open") =>
            (conn'[c].mouse_enabled =
                IF conn[c].pc = "receive" /\ conn[c].phase = "open"
                   /\ conn'[c].ev.cmd = "toggle_mouse"
                THEN ~conn[c].mouse_enabled
                ELSE conn[c].mouse_enabled)

C26_MouseOnlyWhenEnabled == []C26_Called /\ [][C26_Step]_vars

\* The pass that received the toggle which switched the flag on again has
\* called the engine, and the engine clicked.
C26_Witness ==
    \E c \in Clients :
        /\ conn[c].phase = "open" /\ conn[c].pc = "receive"
        /\ conn[c].ev.cmd = "toggle_mouse"
        /\ conn[c].mouse_enabled
        /\ conn[c].ev.hand /\ ~conn[c].ev.training
        /\ conn[c].ev.mouse.called /\ conn[c].ev.mouse.left

(***************************************************************************)
(* Properties of frame skipping (checked under SpecSkip)                   *)
(***************************************************************************)
\* The pass that has just ended skipped its frame.
Skipped(s) ==
    s.ev.frame /\ ~s.ev.training /\ s.frame_count % process_every_n # 0

\* C27: with frame-skip factor N, a pass in Training never skips its frame,
\* a pass in Predicting skips it unless the frame count is a multiple of N,
\* and a skipped pass sends the payload computed by the most recent pass of
\* the session that processed its frame, also when that pass was the one in
\* which training completed: every pass that processes its frame and sends
\* a payload leaves that payload as the one a skipped pass will send.
C27_Step ==
    \A c \in Clients :
        (/\ conn[c].phase = "open" /\ conn[c].pc = "frame"
         /\ conn'[c].phase = "open" /\ conn'[c].ev.frame) =>
            LET k == Len(conn[c].sent) + 1
            IN  /\ Len(conn'[c].sent) >= k
                /\ IF Skipped(conn'[c])
                   THEN /\ conn'[c].sent[k] = conn[c].last_payload
                        /\ conn'[c].last_payload = conn[c].last_payload
                   ELSE conn'[c].last_payload = conn'[c].sent[k]

C27_SkippedSendsLastComputed == [][C27_Step]_vars

\* C28 (under SpecSkipFlag): when the read of the frame fails, the pass
\* sends nothing for that frame, calls neither the detector, the
\* classifier, the mouse engine nor the dispatcher, leaves the frame
\* counter, the detector timestamp, the mode, the captured count and the
\* previous wrist position as command intake left them, and the loop goes
\* on to the next pass.
C28_Step ==
    \A c \in Clients :
        (/\ conn[c].phase = "open" /\ conn[c].pc = "frame"
         /\ conn'[c] # conn[c]
         /\ ~conn'[c].ev.frame) =>
            /\ conn'[c].phase = "open" /\ conn'[c].pc = "receive"
            /\ conn'[c].sent = conn[c].sent
            /\ conn'[c].ev.timestamps = 0
            /\ ~conn'[c].ev.hand /\ ~conn'[c].ev.predicted
            /\ ~conn'[c].ev.mouse.called
            /\ conn'[c].ev.executed = None
            /\ conn'[c].frame_count = conn[c].frame_count
            /\ SessionState(conn'[c]) = SessionState(conn[c])
            /\ conn'[c].last_payload = conn[c].last_payload
            /\ gesture_model' = gesture_model
            /\ desktop_ctrl' = desktop_ctrl
            /\ mouse_ctrl' = mouse_ctrl
            /\ snapshot' = snapshot

C28_FailedReadIsRetried == [][C28_Step]_vars

\* A failed read in the middle of a training run, on an odd frame count,
\* in a pass that received a command.
C28_Witness ==
    \E c \in Clients :
        /\ conn[c].phase = "open" /\ conn[c].pc = "receive"
        /\ ~conn[c].ev.frame
        /\ conn[c].ev.cmd = "toggle_mouse"
        /\ conn[c].training_mode
        /\ conn[c].frames_captured > 0
        /\ conn[c].prev_wrist_coords # None
        /\ conn[c].frame_count = 1

(***************************************************************************)
(* Properties of the dispatcher's per-gesture debounce (checked under      *)
(* SpecDispatch)                                                           *)
(***************************************************************************)
\* C29: the debounce is kept per gesture: a firing changes the last-fired
\* time of the fired gesture only, so a dispatch of a mapped gesture whose
\* own last firing is at least a cooldown back calls the executor whatever
\* other gestures have just fired, also when they map to the same action.
C29_Step ==
    desktop_ctrl'.last_action_time # desktop_ctrl.last_action_time =>
        /\ disp'.called /\ disp'.success
        /\ \A g \in (DOMAIN desktop_ctrl.last_action_time
                     \cup DOMAIN desktop_ctrl'.last_action_time) :
               g # disp'.gesture =>
                   /\ g \in DOMAIN desktop_ctrl.last_action_time
                   /\ g \in DOMAIN desktop_ctrl'.last_action_time
                   /\ desktop_ctrl'.last_action_time[g]
                          = desktop_ctrl.last_action_time[g]

C29_OwnCooldownOnly ==
    (/\ disp.called /\ disp.mapped
     /\ disp.gesture \notin {"Unknown", "None"}
     /\ (disp.prev_success = None \/ disp.t - disp.prev_success[1] >= cooldown)) =>
        disp.invoked

C29_DebouncePerGesture == []C29_OwnCooldownOnly /\ [][C29_Step]_vars

\* B is dispatched at the very time at which A fired, both mapped to the
\* same action, and the executor runs for B.
C29_Witness ==
    /\ disp.called /\ disp.gesture = "B"
    /\ disp.invoked /\ disp.success
    /\ "A" \in DOMAIN desktop_ctrl.last_action_time
    /\ desktop_ctrl.last_action_time["A"] = disp.t
    /\ "A" \in DOMAIN desktop_ctrl.gesture_map
    /\ "B" \in DOMAIN desktop_ctrl.gesture_map
    /\ desktop_ctrl.gesture_map["A"] = desktop_ctrl.gesture_map["B"]

(***************************************************************************)
(* Properties of the velocity reference (checked under Spec)               *)
(***************************************************************************)
\* C30: in Training the velocity reference is the wrist position of the
\* frame with a hand processed just before in the run, also when that frame
\* was rejected: a pass in Training that finds a hand leaves its wrist as
\* the reference whether it accepts or rejects the frame, a command other
\* than start_training leaves the reference alone, and after a rejected
\* frame a frame whose wrist is within the threshold of that reference is
\* accepted and counted.
C30_Reference ==
    \A c \in Clients :
        (/\ conn[c].phase = "open" /\ conn[c].pc = "receive"
         /\ conn[c].ev.frame /\ conn[c].ev.hand /\ conn[c].ev.training) =>
            /\ conn[c].prev_wrist_coords = conn[c].ev.wrist
            /\ conn[c].last_rejected = conn[c].ev.rejected

C30_Step ==
    \A c \in Clients :
        /\ (/\ conn[c].phase = "open" /\ conn[c].pc = "receive"
            /\ conn'[c].phase = "open"
            /\ conn'[c].ev.cmd # "start_training") =>
               /\ conn'[c].prev_wrist_coords = conn[c].prev_wrist_coords
               /\ conn'[c].last_rejected = conn[c].last_rejected
        /\ (/\ conn[c].phase = "open" /\ conn[c].pc = "frame"
            /\ conn[c].training_mode /\ conn[c].last_rejected
            /\ conn'[c].ev.frame /\ conn'[c].ev.hand) =>
               /\ conn[c].prev_wrist_coords # None
               /\ conn'[c].ev.after_rejected
               /\ ~TooFast(conn'[c].ev.wrist, conn[c].prev_wrist_coords) =>
                      /\ conn'[c].ev.accepted /\ ~conn'[c].ev.rejected
                      /\ Len(gesture_model'.X_data) = Len(gesture_model.X_data) + 1
                      /\ conn'[c].phase = "open" =>
                             (IF conn'[c].ev.reached THEN conn'[c].frames_captured = 0
                              ELSE conn'[c].frames_captured
                                       = conn[c].frames_captured + 1)

C30_ReferenceIsPrecedingFrame == []C30_Reference /\ [][C30_Step]_vars

\* A frame accepted right after a rejected one, at the rejected frame's
\* wrist position.
C30_Witness ==
    \E c \in Clients :
        /\ conn[c].phase = "open" /\ conn[c].pc = "receive"
        /\ conn[c].ev.training /\ conn[c].ev.hand
        /\ conn[c].ev.after_rejected /\ conn[c].ev.accepted
        /\ conn[c].ev.wrist = <<3, 4>>
        /\ conn[c].added = 2

(***************************************************************************)
(* C31                                                                     *)
(***************************************************************************)

\* C31: if the camera cannot be opened for a new connection, the error is
\* sent to the client exactly once, the connection is closed and is not
\* among the broadcast targets, no pass of the loop runs (no frame is
\* read, no command is taken), and the landmarker created for the
\* connection is closed.
C31_CameraFailureReleasesEverything ==
    \A c \in Clients :
        (conn[c].phase = "closed" /\ conn[c].exit = "camera") =>
            /\ conn[c].sent = <<ErrorMsg("Cannot open camera index 0")>>
            /\ c \notin active_websockets
            /\ conn[c].ev = NoEvent
            /\ conn[c].frame_count = 0
            /\ conn[c].landmarker = "closed"

(***************************************************************************)
(* C32 (checked under SpecThreads)                                         *)
(***************************************************************************)
\* C32: with two sessions predicting the same mapped gesture at the same
\* time, the executor succeeds for that gesture at most once within any
\* window shorter than the cooldown: no two threads are inside the
\* executor for the same gesture at once, and the last successful calls of
\* two threads for the same gesture were made at least a cooldown apart.
C32_AtMostOncePerCooldown ==
    /\ \A a, b \in Threads :
          (a # b /\ workers[a].pc = "run" /\ workers[b].pc = "run") =>
              workers[a].gesture # workers[b].gesture
    /\ \A a, b \in Threads :
          (a # b /\ workers[a].fired # None /\ workers[b].fired # None
                 /\ workers[a].fired[1][1] = workers[b].fired[1][1]) =>
              Abs(workers[a].fired[1][2] - workers[b].fired[1][2]) >= cooldown

(***************************************************************************)
(* C33                                                                     *)
(***************************************************************************)
\* The per-frame payloads among the messages of the current pass.
Payloads(s) == {s.sent[i] : i \in {j \in 1..Len(s.sent) : "gesture" \in DOMAIN s.sent[j]}}

\* C33: a per-frame payload carries an action field only if in the same
\* pass the dispatcher invoked the executor for the predicted gesture and
\* it succeeded, and the field is the action that was executed; no payload
\* of a pass that processed its frame in Training, the pass in which
\* training completes included, carries an action field.
C33_ActionOnlyWhenExecuted ==
    \A c \in Clients : \A m \in Payloads(conn[c]) :
        m.action # None =>
            /\ conn[c].ev.predicted
            /\ ~conn[c].ev.training
            /\ conn[c].ev.executed = m.action

(***************************************************************************)
(* C34                                                                     *)
(***************************************************************************)
\* C34: a training_complete status is sent only in a pass that processed a
\* stop_training command or that, being in Training, accepted the frame
\* that reached the target; whatever target_frames the client sent, 0
\* included, a pass that starts and ends in Predicting without a
\* stop_training command does not send it.
C34_CompleteOnlyOnStopOrTarget ==
    \A c \in Clients :
        (\E i \in 1..Len(conn[c].sent) :
             conn[c].sent[i] = StatusMsg("training_complete")) =>
            \/ conn[c].ev.cmd = "stop_training"
            \/ conn[c].ev.training /\ conn[c].ev.accepted /\ conn[c].ev.reached

(***************************************************************************)
(* C35 (checked under SpecConfig)                                          *)
(***************************************************************************)
\* C35: once every gesture-mapping handler that was started (REST upsert,
\* REST delete, update_mapping command) has returned, the dispatcher's live
\* map equals the map built from the configuration store: every stored
\* gesture maps to its preset action or to "keyboard:<keys>", and no
\* deleted gesture remains.
C35_LiveMapEqualsStore ==
    (\A r \in RequestThreads : requests[r].pc = "idle") =>
        desktop_ctrl.gesture_map = build_gesture_map(config_store)

(***************************************************************************)
(* C36 (checked under SpecAbandon)                                         *)
(***************************************************************************)
\* The step is one in which session c calls train(): it takes the
\* stop_training command, or it accepts the frame that reaches its target
\* (whether or not the rest of that pass raises).
C36_Trains(c) ==
    \/ /\ conn[c].phase = "open" /\ conn[c].pc = "receive"
       /\ conn'[c].phase = "open" /\ conn'[c].pc = "frame"
       /\ conn'[c].ev.cmd = "stop_training"
    \/ /\ conn[c].phase = "open" /\ conn[c].pc = "frame"
       /\ conn'[c] # conn[c]
       /\ conn'[c].ev.accepted /\ conn'[c].ev.reached

\* C36: a train() triggered by one session fits the model on every sample
\* that is in the shared buffer at that moment, whichever session added it
\* and whether or not the run that added it has finished or was abandoned;
\* no other step changes the fitted model, so after the last train() the
\* model covers exactly the buffer contents at that call.
C36_Step ==
    /\ \A c \in Pair :
          (C36_Trains(c) /\ Len(gesture_model'.X_data) > 0) =>
              /\ gesture_model'.is_trained
              /\ gesture_model'.model # None
              /\ gesture_model'.model[1].X = gesture_model'.X_data
              /\ gesture_model'.model[1].y = gesture_model'.y_data
    /\ (gesture_model'.model # gesture_model.model) =>
          \E c \in Pair : C36_Trains(c)

C36_TrainCoversSharedBuffer == [][C36_Step]_vars

\* The second session has stopped training without a sample of its own;
\* the model holds the sample of the run the first session abandoned by
\* restarting with another label and the sample of its unfinished run.
C36_Witness ==
    /\ conn["c2"].ev.cmd = "stop_training" /\ conn["c2"].pc = "frame"
    /\ gesture_model.model # None
    /\ gesture_model.model[1].y = <<"A", "C">>
    /\ gesture_model.y_data = <<"A", "C">>
    /\ conn["c1"].training_mode /\ conn["c1"].training_label = "C"
    /\ conn["c1"].frames_captured = 1

(***************************************************************************)
(* C37 (checked under SpecClassifier)                                      *)
(***************************************************************************)
\* The buffer is samples of other labels followed by one or more samples
\* (L, v) of a label L that none of the earlier samples carries, and the
\* model was fitted on all of it.
NewLabelTrained(L, v) ==
    LET y == gesture_model.y_data
        X == gesture_model.X_data
    IN  /\ gesture_model.is_trained /\ gesture_model.model # None
        /\ gesture_model.model[1].X = X /\ gesture_model.model[1].y = y
        /\ \E j \in 1..(Len(y) - 1) :
              /\ \A i \in 1..j : y[i] # L
              /\ \A i \in (j + 1)..Len(y) : y[i] = L /\ X[i] = v

\* C37: for a classifier that holds samples of other labels, after
\* add_sample(L, v) has been called one or more times for a new label L
\* and train() once, predict(v) returns the label L.
C37_NewLabelUsableAfterOneTrain ==
    \A L \in TrainLabels :
        (pred.called /\ NewLabelTrained(L, pred.query)) => pred.result.label = L

(***************************************************************************)
(* C38 (checked under SpecClassifier)                                      *)
(***************************************************************************)
\* C38: every result of predict on a trained classifier is either the
\* label "Unknown" with a reported value of at least 0.6, or a label that
\* was in the buffer at the last train() with a confidence between 0.4 and
\* 1.0; no result has a negative confidence, and none has a label other
\* than "Unknown" with a confidence below 0.4.
C38_ResultRanges ==
    (pred.called /\ gesture_model.is_trained /\ gesture_model.model # None) =>
        /\ \/ /\ pred.result.label = "Unknown"
              /\ pred.result.confidence >= UNKNOWN_THRESHOLD
           \/ /\ pred.result.label \in FittedLabels
              /\ pred.result.confidence >= Scale - UNKNOWN_THRESHOLD
              /\ pred.result.confidence <= Scale
        /\ pred.result.confidence >= 0
        /\ pred.result.label # "Unknown" =>
               pred.result.confidence >= Scale - UNKNOWN_THRESHOLD

\* A recognised gesture at the lowest confidence, 0.4, and next to the
\* threshold a rejected query.
C38_Witness ==
    /\ pred.called /\ gesture_model.is_trained
    /\ pred.result = [label |-> "B", confidence |-> Scale - UNKNOWN_THRESHOLD]
    /\ \E v \in Vecs : \E r \in predict(gesture_model, v) :
          r.label = "Unknown" /\ r.confidence > UNKNOWN_THRESHOLD

(***************************************************************************)
(* C39 (checked under SpecCursor)                                          *)
(***************************************************************************)
\* x lies between a and b, ends included.
Between(a, x, b) == (a <= x /\ x <= b) \/ (b <= x /\ x <= a)

\* The target the last call mapped the index tip to.
C39_Target ==
    <<Interp(mouse.hand.index[1], screen_width),
      Interp(mouse.hand.index[2], screen_height)>>

\* C39: with a smoothing divisor of 1 or more, after every call of the
\* engine the stored previous position lies between the former stored
\* position and the mapped target on each axis, so it is on the screen in
\* every reachable state; the stored position is the smoothed position
\* also when the cursor move fails.
C39_PositionStaysOnScreen ==
    /\ smoothening >= 1
    /\ mouse_ctrl.prev[1] >= 0 /\ mouse_ctrl.prev[1] <= screen_width
    /\ mouse_ctrl.prev[2] >= 0 /\ mouse_ctrl.prev[2] <= screen_height
    /\ mouse.called =>
          /\ \A i \in 1..2 :
                /\ Between(mouse.before.prev[i], mouse_ctrl.prev[i], C39_Target[i])
                /\ smoothening * (mouse_ctrl.prev[i] - mouse.before.prev[i])
                      <= Abs(C39_Target[i] - mouse.before.prev[i]) + smoothening - 1
                /\ smoothening * (mouse.before.prev[i] - mouse_ctrl.prev[i])
                      <= Abs(C39_Target[i] - mouse.before.prev[i]) + smoothening - 1
                /\ (Abs(C39_Target[i] - mouse.before.prev[i]) >= smoothening) =>
                      mouse_ctrl.prev[i] # mouse.before.prev[i]

\* The index tip is left of the frame and the move failed: the stored
\* position has gone towards the left edge all the same.
C39_Witness ==
    /\ mouse.called /\ ~mouse.moved
    /\ mouse.hand.index[1] < 0
    /\ C39_Target[1] = 0
    /\ mouse_ctrl.prev[1] < mouse.before.prev[1]
    /\ mouse_ctrl.prev[1] < screen_width \div 4

(***************************************************************************)
(* C40 (checked under SpecJarvis)                                          *)
(***************************************************************************)
\* Ids are assigned 1, 2, 3, ... and the log holds the newest of them, at
\* most max_events, in increasing order.
C40_Log ==
    jarvis_service # None =>
        LET js == jarvis_service[1]
        IN  /\ Len(js.events) = Min(js.event_seq, js.max_events)
            /\ \A i \in 1..Len(js.events) :
                  js.events[i]["id"] = js.event_seq - Len(js.events) + i

\* An id is assigned once: every step that adds an event gives it the id
\* after the last one assigned, and the counter never goes back.
C40_Step ==
    (jarvis_service # None /\ jarvis_service' # jarvis_service) =>
        LET seq == jarvis_service[1].event_seq
            js == jarvis_service'[1]
        IN  \/ js.event_seq = seq /\ js.events = jarvis_service[1].events
            \/ /\ js.event_seq = seq + 1
               /\ js.events[Len(js.events)]["id"] = seq + 1

\* The retained ids above since_id, oldest first.
C40_Newer(call) == SelectSeq(call.retained, LAMBDA id : id > call.since_id)

\* A poller that passes the last id it received has got no id twice, and
\* what it has got was in increasing order; its last answer skipped no
\* retained event: the retained events it was not given are all newer than
\* the id it will pass next.
C40_Poller ==
    /\ \A i, j \in 1..Len(poller.got) : i < j => poller.got[i] < poller.got[j]
    /\ poller.call.called =>
          \A i \in 1..Len(poller.call.retained) :
              LET id == poller.call.retained[i]
              IN  (id > poller.call.since_id
                   /\ \A k \in 1..Len(poller.call.events) :
                          poller.call.events[k]["id"] # id)
                      => id > poller.last_event_id

\* C40 as stated: get_events(since_id, limit) returns the oldest up to
\* `limit` of the retained events with id > since_id, for every limit.
C40_AsStated ==
    poller.call.called =>
        Ids(poller.call.events) =
            SubSeq(C40_Newer(poller.call), 1,
                   Min(Max(poller.call.limit, 0), Len(C40_Newer(poller.call))))

\* C40 as amended: ids are assigned strictly increasing from 1 and never
\* reused; the log holds at most max_events events, always the newest;
\* get_events(since_id, limit) returns in increasing id order the oldest
\* `limit` retained events with id > since_id when limit >= 1, and all of
\* them when limit <= 0; a poller that always passes the last id it
\* received gets no event twice and misses none that is still retained.
C40_Answer ==
    poller.call.called =>
        Ids(poller.call.events) =
            IF poller.call.limit >= 1
            THEN SubSeq(C40_Newer(poller.call), 1,
                        Min(poller.call.limit, Len(C40_Newer(poller.call))))
            ELSE C40_Newer(poller.call)

C40_EventLog ==
    /\ [](C40_Log /\ C40_Answer /\ C40_Poller)
    /\ [][C40_Step]_vars

\* The log has dropped its oldest events; the poller, asking for one event
\* at a time, has got two in a row and events newer than those are
\* retained for its next call.
C40_Witness ==
    /\ jarvis_service # None
    /\ jarvis_service[1].event_seq > jarvis_service[1].max_events
    /\ poller.call.called /\ poller.call.limit = 1
    /\ Len(poller.got) >= 2
    /\ poller.got[1] > 1
    /\ poller.last_event_id < jarvis_service[1].event_seq

====
